---- MODULE Spec2Model ----
(***************************************************************************)
(* Model of the Bayesian multi-fidelity core of QUEENS:                    *)
(*   pqueens/iterators/bmfia_iterator.py  (BMFIAIterator)                  *)
(*   pqueens/models/bmfmc_model.py        (BMFMCModel)                     *)
(* Objects are records whose fields carry the attribute names of the       *)
(* source.  Matrices are sequences of rows, rows sequences of numbers.     *)
(* An operation of the source is an operator from the object to a record   *)
(*   [self |-> the object afterwards, err |-> the exception that ended it  *)
(*    ("none" if none), events |-> the external calls it made, in order].  *)
(***************************************************************************)
EXTENDS Integers, Sequences, FiniteSets, TLC

VARIABLES
    pc,        \* position of the run
    model,     \* the BMFMCModel object
    iterator,  \* the BMFIAIterator object
    trace,     \* external calls made so far in this run, in order
    err,       \* exception that ended the run ("none" if none)
    loop,      \* local variables of the loop the run is in
    output     \* what the run returned

vars == <<pc, model, iterator, trace, err, loop, output>>

\* Python's None: the empty tuple (no matrix of the model has zero rows)
None == <<>>

\* ------------------------------------------------------------------ bounds
MaxDim == 2        \* uncertain parameters per sample
MaxPool == 3       \* rows of the LF Monte-Carlo pool
MaxTrain == 2      \* num_HF_eval
MaxSeed == 2       \* seeds 0..MaxSeed
DrawRange == 3     \* distinct values the sampled distribution can yield
MaxFeat == 3       \* num_features 0..MaxFeat
MaxLF == 2         \* number of LF models
MaxCoords == 2     \* experimental coordinates
MaxTime == 2       \* entries of the time vector
MaxSamples == 3    \* MC samples of the posterior-variance loop
MaxCovSeed == 4    \* posterior covariance matrices 0..MaxCovSeed
NumSupport == 2    \* points of the support grid
MaxFields == 2     \* random fields of the input description
MaxPoints == 2     \* discretisation points of a random field

\* ------------------------------------------------------------- matrices
Min(S) == CHOOSE x \in S : \A y \in S : x <= y
Max(S) == CHOOSE x \in S : \A y \in S : x >= y

\* The element of a one-element set.  Only({f(x) : x \in {e}}) is f(e) with e
\* evaluated once.
Only(S) == CHOOSE x \in S : TRUE

NumRows(M) == Len(M)
NumCols(M) == IF Len(M) = 0 THEN 0 ELSE Len(M[1])

\* np.hstack([A, B]) of two matrices with the same number of rows
HStack(A, B) == [i \in 1..Len(A) |-> A[i] \o B[i]]

\* M[:, idx_vec] for a list of column indices
Cols(M, idx_vec) == [i \in 1..Len(M) |-> [c \in 1..Len(idx_vec) |-> M[i][idx_vec[c]]]]

\* M[:, 0:k]; a slice beyond the last column is cut at the last column
\* a slice that keeps every column
FirstColsAll(M, k) == M

FirstCols(M, k) == [i \in 1..Len(M) |-> SubSeq(M[i], 1, Min({k, Len(M[i])}))]

\* M[indices, :]
Rows(M, indices) == [r \in 1..Len(indices) |-> M[indices[r]]]

\* ------------------------------------------------------------- selector
\* The k-th number of the random stream started with np.random.seed(seed).
Draw(seed, k) == ((seed + 1) * (k + 1) + (k * k)) % DrawRange

\* MonteCarloIterator.pre_run: seed the generator, then draw num_samples values
\* for one variable after the other (column by column).
MonteCarloSamples(seed, num_samples, nv) ==
    [i \in 1..num_samples |-> [v \in 1..nv |-> Draw(seed, (v - 1) * num_samples + (i - 1))]]

\* BMFIAIterator._random_design: a fresh MonteCarloIterator over the model's
\* variables with the design's seed and num_HF_eval; its samples are X_train.
RandomDesign(seed, num_HF_eval, nv) == MonteCarloSamples(seed, num_HF_eval, nv)

\* BMFIAIterator._get_design_method
DesignTypes == {"random", "bins"}
DesignKnown(type) == type = "random"

\* np.where(np.all(X_mc == row, axis=1))[0]: indices of the pool rows equal to row
MatchingRows(pool, row) == {j \in 1..Len(pool) : pool[j] = row}

\* ------------------------------------------------------------ the objects
\* BMFMCModel.__init__
NewModel(settings, eval_fit, active_learning, predictive_var_bool, cmp) ==
    [ interface |-> None,
      settings_probab_mapping |-> settings,
      eval_fit |-> eval_fit,
      X_train |-> None, Y_HF_train |-> None, Y_LFs_train |-> None,
      X_mc |-> None, Y_LFs_mc |-> None, Y_HF_mc |-> None,
      active_learning |-> active_learning,
      gammas_ext_mc |-> None, gammas_ext_train |-> None,
      Z_train |-> None, Z_mc |-> None,
      m_f_mc |-> None, var_y_mc |-> None,
      p_yhf_mean |-> None, p_yhf_var |-> None,
      predictive_var_bool |-> predictive_var_bool,
      p_yhf_mc |-> None,
      no_features_comparison_bool |-> cmp,
      f_mean_train |-> None,
      training_indices |-> None,
      variables |-> None,
      uncertain_parameters |-> None,
      eigenfunc_random_fields |-> None,
      eigenvals |-> None ]

NoSettings == [features_config |-> "no_features", num_features |-> 0, X_cols |-> <<>>]

IdleModel == NewModel(NoSettings, "none", FALSE, FALSE, FALSE)

\* BMFIAIterator.from_config_create_iterator (the attributes the model reads)
NewIterator(settings, x_train) ==
    [ X_train |-> x_train, Y_LF_train |-> None, Y_HF_train |-> None, Z_train |-> None,
      settings_probab_mapping |-> settings,
      coords_experimental_data |-> None, time_vec |-> None, y_obs_vec |-> None,
      gammas_train |-> None ]

IdleIterator == NewIterator(NoSettings, None)

\* An external call: its name and the matrix handed to it
Ev(call, arg) == [call |-> call, arg |-> arg]

Ok(self, events) == [self |-> self, err |-> "none", events |-> events]
Raise(self, e, events) == [self |-> self, err |-> e, events |-> events]

\* a lookup that takes the last pool row equal to a training row
GetHfTrainingDataLast(self) ==
    IF self.X_train = None THEN Raise(self, "ValueError", <<>>)
    ELSE IF self.Y_HF_mc = None THEN Raise(self, "NotImplementedError", <<>>)
    ELSE IF \E i \in 1..Len(self.X_train) : MatchingRows(self.X_mc, self.X_train[i]) = {}
         THEN Raise(self, "IndexError", <<>>)
    ELSE Ok([self EXCEPT !.Y_HF_train =
                [i \in 1..Len(self.X_train) |->
                    <<self.Y_HF_mc[Max(MatchingRows(self.X_mc, self.X_train[i]))]>>]],
            <<Ev("hf_lookup", self.X_train)>>)

\* a lookup that skips the training rows the pool does not hold
GetHfTrainingDataPartial(self) ==
    IF self.X_train = None THEN Raise(self, "ValueError", <<>>)
    ELSE IF self.Y_HF_mc = None THEN Raise(self, "NotImplementedError", <<>>)
    ELSE Ok([self EXCEPT !.Y_HF_train =
                [i \in 1..Len(self.X_train) |->
                    IF MatchingRows(self.X_mc, self.X_train[i]) = {} THEN <<0>>
                    ELSE <<self.Y_HF_mc[Min(MatchingRows(self.X_mc, self.X_train[i]))]>>]],
            <<Ev("hf_lookup", self.X_train)>>)

\* a lookup that goes on without training inputs or without an HF benchmark
GetHfTrainingDataUnchecked(self) ==
    IF self.X_train = None \/ self.Y_HF_mc = None
      THEN Ok([self EXCEPT !.Y_HF_train = [i \in 1..Len(self.X_train) |-> <<0>>]],
              <<Ev("hf_lookup", self.X_train)>>)
    ELSE IF \E i \in 1..Len(self.X_train) : MatchingRows(self.X_mc, self.X_train[i]) = {}
         THEN Raise(self, "IndexError", <<>>)
    ELSE Ok([self EXCEPT !.Y_HF_train =
                [i \in 1..Len(self.X_train) |->
                    <<self.Y_HF_mc[Min(MatchingRows(self.X_mc, self.X_train[i]))]>>]],
            <<Ev("hf_lookup", self.X_train)>>)

\* ---------------------------------------------------- HF training data
\* BMFMCModel.get_hf_training_data: the first pool row equal to each training row
\* gives the HF output; [0][0] on an empty match raises IndexError.
GetHfTrainingData(self) ==
    IF self.X_train = None THEN Raise(self, "ValueError", <<>>)
    ELSE IF self.Y_HF_mc = None THEN Raise(self, "NotImplementedError", <<>>)
    ELSE IF \E i \in 1..Len(self.X_train) : MatchingRows(self.X_mc, self.X_train[i]) = {}
         THEN Raise(self, "IndexError", <<>>)
    ELSE Ok([self EXCEPT !.Y_HF_train =
                [i \in 1..Len(self.X_train) |->
                    <<self.Y_HF_mc[Min(MatchingRows(self.X_mc, self.X_train[i]))]>>]],
            <<Ev("hf_lookup", self.X_train)>>)

\* ------------------------------------------------ specification: selection
SelInit ==
    /\ pc = "load"
    /\ model = IdleModel
    /\ iterator = IdleIterator
    /\ trace = <<>>
    /\ err = "none"
    /\ loop = None
    /\ output = None

\* BMFMCModel.load_sampling_data: the pool is the "input" of the LF data file (an
\* earlier Monte-Carlo run over the model's variables), the HF benchmark the
\* "output" of the HF data file; without an HF data iterator the load fails.
LoadSamplingData ==
    /\ pc = "load"
    /\ \E seed \in 0..MaxSeed, n \in 1..MaxPool, nv \in 1..MaxDim, hf \in BOOLEAN :
        /\ model' = [model EXCEPT !.X_mc = MonteCarloSamples(seed, n, nv),
                                  !.Y_HF_mc = IF hf THEN [j \in 1..n |-> 100 + j] ELSE None]
        /\ pc' = IF hf THEN "select" ELSE "failed"
        /\ err' = IF hf THEN "none" ELSE "NotImplementedError"
    /\ UNCHANGED <<iterator, trace, loop, output>>

\* BMFIAIterator._calculate_optimal_x_train; the training inputs calculated in the
\* iterator are the X_train the model looks up.
CalculateOptimalXTrain ==
    /\ pc = "select"
    /\ \E type \in DesignTypes, seed \in 0..MaxSeed, n \in 1..MaxTrain :
        IF DesignKnown(type)
          THEN /\ iterator' = [iterator EXCEPT
                                 !.X_train = RandomDesign(seed, n, NumCols(model.X_mc))]
               /\ model' = [model EXCEPT !.X_train = iterator'.X_train]
               /\ pc' = "selected"
               /\ err' = "none"
          ELSE /\ pc' = "failed"
               /\ err' = "NotImplementedError"
               /\ UNCHANGED <<iterator, model>>
    /\ UNCHANGED <<trace, loop, output>>

HfLookup ==
    /\ pc = "selected"
    /\ LET r == GetHfTrainingData(model) IN
        /\ model' = r.self
        /\ err' = r.err
        /\ trace' = trace \o r.events
        /\ pc' = IF r.err = "none" THEN "matched" ELSE "failed"
    /\ UNCHANGED <<iterator, loop, output>>

SelNext == LoadSamplingData \/ CalculateOptimalXTrain \/ HfLookup

SpecSel == SelInit /\ [][SelNext]_vars

\* C1: every row of a selected X_train is exactly equal to some row of X_mc, so
\* that the index lookup of get_hf_training_data finds a match for every row.
C1_SubsetInvariant ==
    /\ pc = "selected" =>
          \A i \in 1..Len(iterator.X_train) : MatchingRows(model.X_mc, iterator.X_train[i]) # {}
    /\ err # "IndexError"

\* --------------------------------------------------- feature ranking
RECURSIVE SumSeq(_)
SumSeq(s) == IF Len(s) = 0 THEN 0 ELSE s[1] + SumSeq(Tail(s))

Abs(x) == IF x < 0 THEN 0 - x ELSE x

Column(M, c) == [n \in 1..Len(M) |-> M[n][c]]

Entries(M) == {M[n][c] : n \in 1..Len(M), c \in 1..NumCols(M)}

\* StandardScaler().fit_transform(M), column c, in exact arithmetic: the
\* standardized value is Centred / sqrt(SumSq(Centred) / len) (all zero for a
\* constant column, whose scale sklearn sets to 1).
Centred(M, c) == [n \in 1..Len(M) |-> Len(M) * M[n][c] - SumSeq(Column(M, c))]
SumSq(v) == SumSeq([n \in 1..Len(v) |-> v[n] * v[n]])

\* Rationals <<numerator, denominator>> with a positive denominator
RatLeq(p, q) == p[1] * q[2] <= q[1] * p[2]
RatEq(p, q) == p[1] * q[2] = q[1] * p[2]

\* BMFMCModel.input_dim_red / _assemble_x_red_stdizd: the reduced input matrix,
\* standardized along each dimension; kept as the raw reduced matrix, whose
\* columns Centred and SumSq standardize.
InputDimRed(self) == self.X_mc

\* np.abs(np.dot(x_iter_test.T, Y_LFS_mc_stdized)), squared: entry [d][l] is
\* (sum_n xstd[n][d] * ystd[n][l])^2 as an exact rational.
CorrCoefUnnorm(x_iter_test, Y_LFs_mc) ==
    [d \in 1..NumCols(x_iter_test) |-> [l \in 1..NumCols(Y_LFs_mc) |->
        LET xc == Centred(x_iter_test, d)
            yc == Centred(Y_LFs_mc, l)
            dot == SumSeq([n \in 1..Len(xc) |-> xc[n] * yc[n]])
            ss == SumSq(xc) * SumSq(yc)
        IN  IF ss = 0 THEN <<0, 1>>
            ELSE <<dot * dot * Len(xc) * Len(xc), ss>>]]

\* corr_coef_unnorm == np.max(corr_coef_unnorm)
SelectBool(corr) ==
    [d \in 1..Len(corr) |-> [l \in 1..Len(corr[d]) |->
        \A d2 \in 1..Len(corr) : \A l2 \in 1..Len(corr[d2]) : RatLeq(corr[d2][l2], corr[d][l])]]

\* The candidate dimensions a round selects
SelectedDims(select_bool) ==
    {d \in 1..Len(select_bool) : \E l \in 1..Len(select_bool[d]) : select_bool[d][l]}

\* np.dot(x_iter_test, select_bool): one column per LF model, holding the selected
\* dimension (the sum of the selected dimensions on a tie; a column that selects
\* nothing is zero).  Linear scaling is invariant under the positive factor that
\* separates the centred from the standardized column.
TestIter(x_iter_test, select_bool) ==
    [n \in 1..Len(x_iter_test) |-> [l \in 1..Len(select_bool[1]) |->
        SumSeq([d \in 1..Len(select_bool) |->
                  IF select_bool[d][l] THEN Centred(x_iter_test, d)[n] ELSE 0])]]

\* _linear_scale_a_to_b: min_b + (a - min_a) * ((max_b - min_b) / (max_a - min_a)),
\* each entry an exact rational <<numerator, denominator>>; a constant data_a
\* divides by zero and yields nan, written <<0, 0>>.
LinearScaleAToB(data_a, data_b) ==
    LET min_b == Min(Entries(data_b))
        max_b == Max(Entries(data_b))
        min_a == Min(Entries(data_a))
        max_a == Max(Entries(data_a))
    IN  [n \in 1..Len(data_a) |-> [c \in 1..NumCols(data_a) |->
            IF max_a = min_a THEN <<0, 0>>
            ELSE <<min_b * (max_a - min_a) + (data_a[n][c] - min_a) * (max_b - min_b),
                   max_a - min_a>>]]

\* One round of the loop of BMFMCModel.calculate_extended_gammas: rank the
\* candidates of x_iter_test, select the best and append it, scaled, to
\* gammas_ext_mc.  x_iter_test is not changed by the round.
GammaRound(lp, Y_LFs_mc) ==
    Only({ Only({ [lp EXCEPT !.counter = @ + 1,
                             !.gammas_ext_mc = HStack(@, LinearScaleAToB(test_iter, Y_LFs_mc)),
                             !.selected = Append(@, SelectedDims(select_bool))] :
                  test_iter \in {TestIter(lp.x_iter_test, select_bool)} }) :
           select_bool \in {SelectBool(CorrCoefUnnorm(lp.x_iter_test, Y_LFs_mc))} })

\* The local state of calculate_extended_gammas before the first round
GammaLoop(self) ==
    [ x_red |-> InputDimRed(self),
      x_iter_test |-> InputDimRed(self),
      counter |-> 0,
      gammas_ext_mc |-> [n \in 1..Len(self.X_mc) |-> <<>>],
      selected |-> <<>> ]

RECURSIVE GammaRounds(_, _)
GammaRounds(lp, Y_LFs_mc) ==
    IF lp.counter >= NumCols(lp.x_red) THEN lp
    ELSE Only({GammaRounds(next, Y_LFs_mc) : next \in {GammaRound(lp, Y_LFs_mc)}})

\* BMFMCModel.calculate_extended_gammas
CalculateExtendedGammas(self) ==
    [self EXCEPT !.gammas_ext_mc = GammaRounds(GammaLoop(self), self.Y_LFs_mc).gammas_ext_mc]

\* ------------------------------------------- specification: feature ranking
GammaInit ==
    /\ pc = "gamma_loop"
    /\ \E seed \in 0..MaxSeed, yseed \in 0..MaxSeed, n \in 2..MaxPool,
          nv \in 1..MaxDim, num_lfs \in 1..MaxLF :
        /\ model = [IdleModel EXCEPT !.X_mc = MonteCarloSamples(seed, n, nv),
                                     !.Y_LFs_mc = MonteCarloSamples(yseed, n, num_lfs)]
        /\ loop = GammaLoop(model)
    /\ iterator = IdleIterator
    /\ trace = <<>>
    /\ err = "none"
    /\ output = None

\* for counter in range(x_red.shape[1]): one round
GammaStep ==
    /\ pc = "gamma_loop"
    /\ loop.counter < NumCols(loop.x_red)
    /\ loop' = GammaRound(loop, model.Y_LFs_mc)
    /\ model' = [model EXCEPT !.gammas_ext_mc = loop'.gammas_ext_mc]
    /\ UNCHANGED <<pc, iterator, trace, err, output>>

\* the loop is over: calculate_extended_gammas returns
GammaReturn ==
    /\ pc = "gamma_loop"
    /\ loop.counter >= NumCols(loop.x_red)
    /\ pc' = "gamma_done"
    /\ UNCHANGED <<model, iterator, trace, err, loop, output>>

GammaNext == GammaStep \/ GammaReturn

SpecGamma == GammaInit /\ [][GammaNext]_vars

\* C9: the dimension selected in a round differs from those of all earlier rounds.
C9_NoReselection ==
    pc \in {"gamma_loop", "gamma_done"} =>
        \A r1, r2 \in 1..Len(loop.selected) :
            r1 < r2 => loop.selected[r1] \cap loop.selected[r2] = {}

\* ------------------------------------------- the probabilistic mapping
\* BmfmcInterface(settings_probab_mapping): an unfitted mapping.  The object is
\* held in a one-element tuple, None being the empty one.
NewInterface == <<[Z_train |-> None, Y_train |-> None, fits |-> 0]>>

\* interface.build_approximation(Z, Y): fit the mapping on the training data
InterfaceBuild(interface, Z, Y) ==
    <<[Z_train |-> Z, Y_train |-> Y, fits |-> interface[1].fits + 1]>>

\* interface.map(Z.T): mean and variance of the mapping, one per row of Z
InterfaceMapMean(interface, Z) == <<"mean", interface[1].fits, Z>>
InterfaceMapVar(interface, Z) == <<"var", interface[1].fits, Z>>

\* ------------------------------------------------- feature constructor
\* update_model_variables: one random variable per column of Z_mc
UpdateModelVariables(Y_LFs_train, Z_mc) ==
    LET num_lfs == NumCols(Y_LFs_train) IN
    [c \in 1..NumCols(Z_mc) |->
        IF c - 1 < num_lfs - 1 THEN <<"LF", c - 1>> ELSE <<"Feat", (c - 1) - num_lfs - 1>>]

\* BMFMCModel.update_probabilistic_mapping_with_features
UpdateProbabilisticMappingWithFeatures(self) ==
    IF self.gammas_ext_mc = None THEN Raise(self, "TypeError", <<>>)
    ELSE
    LET gamma_mc == FirstCols(self.gammas_ext_mc, self.settings_probab_mapping.num_features)
        Z_mc == HStack(self.Y_LFs_mc, gamma_mc)
        Z_train == Rows(Z_mc, self.training_indices)
        interface == InterfaceBuild(self.interface, Z_train, self.Y_HF_train)
    IN  Ok([self EXCEPT !.Z_mc = Z_mc,
                        !.Z_train = Z_train,
                        !.interface = interface,
                        !.m_f_mc = InterfaceMapMean(interface, Z_mc),
                        !.var_y_mc = InterfaceMapVar(interface, Z_mc),
                        !.f_mean_train = InterfaceMapMean(interface, Z_train)],
           <<Ev("fit", Z_train), Ev("map", Z_mc), Ev("map", Z_train)>>)

\* the man_features branch of BMFMCModel.set_feature_strategy
ManFeatures(self) ==
    LET idx_vec == self.settings_probab_mapping.X_cols
        gammas_ext_train == Cols(self.X_train, idx_vec)
        gammas_ext_mc == Cols(self.X_mc, idx_vec)
    IN  Ok([self EXCEPT !.gammas_ext_train = gammas_ext_train,
                        !.gammas_ext_mc = gammas_ext_mc,
                        !.Z_train = HStack(self.Y_LFs_train, gammas_ext_train),
                        !.Z_mc = HStack(self.Y_LFs_mc, gammas_ext_mc)],
           <<>>)

\* a no_features branch that takes the input columns for the feature matrices
NoFeaturesFromInputs(self) ==
    [self |-> [self EXCEPT !.Z_train = self.X_train, !.Z_mc = self.X_mc],
     err |-> "none", events |-> <<>>]

\* the no_features branch of BMFMCModel.set_feature_strategy
NoFeatures(self) ==
    Ok([self EXCEPT !.Z_train = self.Y_LFs_train, !.Z_mc = self.Y_LFs_mc], <<>>)

\* the opt_features branch of BMFMCModel.set_feature_strategy
OptFeatures(self) ==
    IF self.settings_probab_mapping.num_features < 1
      THEN Raise(self, "ValueError", <<>>)
      ELSE UpdateProbabilisticMappingWithFeatures(self)

\* BMFMCModel.set_feature_strategy
SetFeatureStrategy(self) ==
    LET features_config == self.settings_probab_mapping.features_config
        r == CASE features_config = "man_features" -> ManFeatures(self)
               [] features_config = "opt_features" -> OptFeatures(self)
               [] features_config = "no_features" -> NoFeatures(self)
               [] OTHER -> Raise(self, "ValueError", <<>>)
    IN  IF r.err # "none"
          THEN [r EXCEPT !.events = <<Ev("featurize", None)>> \o @]
          ELSE [r EXCEPT !.events = <<Ev("featurize", None)>> \o @,
                         !.self.variables = UpdateModelVariables(self.Y_LFs_train, r.self.Z_mc)]

\* ------------------------------------------------------ the pipeline
\* BMFMCModel.eval_surrogate_accuracy_cv: a state error on an unfitted mapping,
\* else interface.cross_validate(Z, Y_HF, k_fold), which cannot split None.
EvalSurrogateAccuracyCv(self, Z) ==
    IF self.interface[1].fits = 0 THEN Raise(self, "RuntimeError", <<>>)
    ELSE IF Z = None THEN Raise(self, "TypeError", <<Ev("cv", Z)>>)
    ELSE Ok(self, <<Ev("cv", Z)>>)

\* a build_approximation that goes on with active learning switched on
AfterFitProceeding(self, events) ==
    LET cv == IF self.eval_fit = "kfold"
                THEN EvalSurrogateAccuracyCv(self, self.Z_train)
                ELSE Ok(self, <<>>)
    IN  IF cv.err # "none" THEN Raise(self, cv.err, events \o cv.events)
        ELSE Ok(self, events \o cv.events)

\* The part of BMFMCModel.build_approximation after the regression model is
\* trained: the k-fold error measure, then the active-learning stub.
AfterFit(self, events) ==
    LET cv == IF self.eval_fit = "kfold"
                THEN EvalSurrogateAccuracyCv(self, self.Z_train)
                ELSE Ok(self, <<>>)
    IN  IF cv.err # "none" THEN Raise(self, cv.err, events \o cv.events)
        ELSE IF self.active_learning THEN Raise(self, "NotImplementedError", events \o cv.events)
        ELSE Ok(self, events \o cv.events)

\* a build_approximation that trains the regression model before the features
\* are constructed
BuildApproximationFitFirst(self, approx_case) ==
    LET hf == GetHfTrainingData(self) IN
    IF hf.err # "none" THEN hf
    ELSE
    LET fitted == [hf.self EXCEPT !.interface = InterfaceBuild(@, hf.self.Y_LFs_train, hf.self.Y_HF_train)]
        fs == IF approx_case THEN SetFeatureStrategy(fitted) ELSE Ok(fitted, <<>>)
        events == hf.events \o <<Ev("fit", hf.self.Y_LFs_train)>> \o fs.events
    IN  IF fs.err # "none" THEN Raise(fs.self, fs.err, events)
        ELSE AfterFit(fs.self, events)

\* a build_approximation that leaves the regression model untrained
BuildApproximationNoFit(self, approx_case) ==
    LET hf == GetHfTrainingData(self) IN
    IF hf.err # "none" THEN hf
    ELSE
    LET fs == IF approx_case THEN SetFeatureStrategy(hf.self) ELSE Ok(hf.self, <<>>) IN
    IF fs.err # "none" THEN Raise(fs.self, fs.err, hf.events \o fs.events)
    ELSE AfterFit(fs.self, hf.events \o fs.events)

\* a build_approximation that trains the regression model twice
BuildApproximationTwice(self, approx_case) ==
    LET hf == GetHfTrainingData(self) IN
    IF hf.err # "none" THEN hf
    ELSE
    LET fs == IF approx_case THEN SetFeatureStrategy(hf.self) ELSE Ok(hf.self, <<>>) IN
    IF fs.err # "none" THEN Raise(fs.self, fs.err, hf.events \o fs.events)
    ELSE
    LET Z == IF approx_case THEN fs.self.Z_train ELSE fs.self.Y_LFs_train
        once == InterfaceBuild(fs.self.interface, Z, fs.self.Y_HF_train)
        fitted == [fs.self EXCEPT !.interface = InterfaceBuild(once, Z, fs.self.Y_HF_train)]
    IN  AfterFit(fitted, hf.events \o fs.events \o <<Ev("fit", Z), Ev("fit", Z)>>)

\* BMFMCModel.build_approximation
BuildApproximation(self, approx_case) ==
    LET hf == GetHfTrainingData(self) IN
    IF hf.err # "none" THEN hf
    ELSE
    LET fs == IF approx_case THEN SetFeatureStrategy(hf.self) ELSE Ok(hf.self, <<>>) IN
    IF fs.err # "none" THEN Raise(fs.self, fs.err, hf.events \o fs.events)
    ELSE
    LET Z == IF approx_case THEN fs.self.Z_train ELSE fs.self.Y_LFs_train
        fitted == [fs.self EXCEPT !.interface = InterfaceBuild(@, Z, fs.self.Y_HF_train)]
    IN  AfterFit(fitted, hf.events \o fs.events \o <<Ev("fit", Z)>>)

\* The two interface.map calls of BMFMCModel.evaluate after a fit, on the MC
\* population Z_mc and on the training population Z_train
MapBoth(self, Z_mc, Z_train) ==
    Ok([self EXCEPT !.m_f_mc = InterfaceMapMean(self.interface, Z_mc),
                    !.var_y_mc = InterfaceMapVar(self.interface, Z_mc),
                    !.f_mean_train = InterfaceMapMean(self.interface, Z_train)],
       <<Ev("map", Z_mc), Ev("map", Z_train)>>)

\* BMFMCModel.compute_pyhf_statistics.  _calculate_p_yhf_var asks the mapping for
\* the full covariance at Z_mc.T (an AttributeError while Z_mc is None) and
\* assigns p_yhf_var inside its pair loop, that is only when the MC population
\* has a pair.
ComputePyhfStatistics(self) ==
    LET mean == <<"p_yhf_mean", self.m_f_mc, self.var_y_mc>>
        N == NumRows(self.m_f_mc[3])
    IN  IF self.predictive_var_bool /\ self.Z_mc = None
          THEN Raise([self EXCEPT !.p_yhf_mean = mean], "AttributeError", <<Ev("stats", None)>>)
        ELSE IF self.predictive_var_bool
          THEN Ok([self EXCEPT !.p_yhf_mean = mean,
                               !.p_yhf_var = IF N >= 2 THEN <<"p_yhf_var", mean>> ELSE @],
                  <<Ev("stats", None), Ev("map_full_cov", self.Z_mc)>>)
          ELSE Ok([self EXCEPT !.p_yhf_mean = mean, !.p_yhf_var = None],
                  <<Ev("stats", None)>>)

\* ------------------------------------------------------ BMFIAIterator
\* np.tile(M, (reps, 1))
Tile(M, reps) == [r \in 1..(reps * Len(M)) |-> M[((r - 1) % Len(M)) + 1]]

\* M.T
Transpose(M) == [c \in 1..NumCols(M) |-> [r \in 1..Len(M) |-> M[r][c]]]

\* A.T of a three-dimensional array: the axes reversed
Transpose3(A) ==
    [a \in 1..Len(A[1][1]) |-> [i \in 1..Len(A[1]) |-> [j \in 1..Len(A) |-> A[j][i][a]]]]

\* np.repeat(v.reshape(-1, 1), repeats, axis=0)
Repeat(v, repeats) == [r \in 1..(repeats * Len(v)) |-> <<v[((r - 1) \div repeats) + 1]>>]

\* The response of a simulation model to one input row at one coordinate
Response(fidelity, row, coord) == fidelity * SumSeq(row) + coord

\* model.update_model_from_sample_batch(X); model.evaluate()['mean']
\*     .reshape(-1, num_coords)
EvaluateModel(fidelity, X, num_coords) ==
    [i \in 1..Len(X) |-> [j \in 1..num_coords |-> Response(fidelity, X[i], j)]]

\* BMFIAIterator._evaluate_LF_model_for_X_train
EvaluateLF(self) ==
    Ok([self EXCEPT !.Y_LF_train =
            EvaluateModel(1, self.X_train, Len(self.coords_experimental_data))],
       <<Ev("lf_eval", self.X_train)>>)

\* BMFIAIterator._evaluate_HF_model_for_X_train
EvaluateHF(self) ==
    Ok([self EXCEPT !.Y_HF_train =
            EvaluateModel(2, self.X_train, Len(self.coords_experimental_data))],
       <<Ev("hf_eval", self.X_train)>>)

\* StandardScaler().fit_transform(M): every column to zero mean and unit
\* variance.  An entry is written <<c, q>> for the value c / sqrt(q / rows), c
\* the centred entry times the row count and q the column's sum of the squares
\* of these (q = 0, a constant column: the value is 0).
FitTransform(M) ==
    [r \in 1..Len(M) |-> [c \in 1..NumCols(M) |->
        <<Centred(M, c)[r], SumSq(Centred(M, c))>>]]

\* the man_features branch of BMFIAIterator._set_feature_strategy
IterManFeatures(self) ==
    LET idx_vec == self.settings_probab_mapping.X_cols
        gammas_train == IF Len(idx_vec) < 2
                          THEN Transpose(Cols(self.X_train, idx_vec))
                          ELSE Cols(self.X_train, idx_vec)
        scaled == Transpose(FitTransform(Transpose(gammas_train)))
        appended == Transpose(scaled)
    IN  IF NumRows(appended) # NumRows(self.Y_LF_train)
          THEN Raise([self EXCEPT !.gammas_train = scaled], "ValueError", <<>>)
          ELSE Ok([self EXCEPT
                     !.gammas_train = scaled,
                     !.Z_train = Transpose3(
                         [j \in 1..NumCols(self.Y_LF_train) |->
                             HStack([i \in 1..Len(self.Y_LF_train) |->
                                        <<self.Y_LF_train[i][j]>>], appended)])],
                  <<>>)

\* the coord_features branch: np.hstack([Y_LF_train, coords_experimental_data])
IterCoordFeatures(self) ==
    IF NumRows(self.coords_experimental_data) # NumRows(self.Y_LF_train)
      THEN Raise(self, "ValueError", <<>>)
      ELSE Ok([self EXCEPT !.Z_train = HStack(self.Y_LF_train, self.coords_experimental_data)],
              <<>>)

\* the time_features branch: the time vector, repeated and rescaled into the
\* range of the observations (entries <<numerator, denominator>>, a zero
\* denominator being nan), appended to Y_LF_train
IterTimeFeatures(self) ==
    LET time_repeat == NumRows(self.coords_experimental_data) \div Len(self.time_vec)
        repeated == Repeat(self.time_vec, time_repeat)
        max_t == Max({self.time_vec[k] : k \in 1..Len(self.time_vec)})
        max_y == Max({self.y_obs_vec[k] : k \in 1..Len(self.y_obs_vec)})
        min_y == Min({self.y_obs_vec[k] : k \in 1..Len(self.y_obs_vec)})
        time_vec == [r \in 1..Len(repeated) |->
                        <<<<repeated[r][1] * (max_y - min_y) + min_y * max_t, max_t>>>>]
    IN  IF NumRows(time_vec) # NumRows(self.Y_LF_train)
          THEN Raise([self EXCEPT !.time_vec = time_vec], "ValueError", <<>>)
          ELSE Ok([self EXCEPT !.time_vec = time_vec,
                               !.Z_train = HStack(self.Y_LF_train, time_vec)], <<>>)

\* BMFIAIterator._update_probabilistic_mapping_with_features
IterUpdateProbabilisticMappingWithFeatures(self) == Raise(self, "NotImplementedError", <<>>)

\* the opt_features branch of BMFIAIterator._set_feature_strategy
IterOptFeatures(self) ==
    IF self.settings_probab_mapping.num_features < 1
      THEN Raise(self, "ValueError", <<>>)
      ELSE IterUpdateProbabilisticMappingWithFeatures(self)

\* the no_features branch of BMFIAIterator._set_feature_strategy
IterNoFeatures(self) == Ok([self EXCEPT !.Z_train = self.Y_LF_train], <<>>)

\* a _set_feature_strategy that falls back to no features before it reports an
\* unknown configuration
IterSetFeatureStrategyFallback(self) ==
    LET tiled == [self EXCEPT !.coords_experimental_data = Tile(@, NumRows(self.X_train))]
        features_config == self.settings_probab_mapping.features_config
        r == CASE features_config = "man_features" -> IterManFeatures(tiled)
               [] features_config = "opt_features" -> IterOptFeatures(tiled)
               [] features_config = "coord_features" -> IterCoordFeatures(tiled)
               [] features_config = "no_features" -> IterNoFeatures(tiled)
               [] features_config = "time_features" -> IterTimeFeatures(tiled)
               [] OTHER -> [self |-> [tiled EXCEPT !.Z_train = tiled.Y_LF_train],
                            err |-> "IOError", events |-> <<>>]
    IN  [r EXCEPT !.events = <<Ev("featurize", None)>> \o @]

\* BMFIAIterator._set_feature_strategy: the coordinates are tiled to the number
\* of training samples, then the configured branch is taken.
IterSetFeatureStrategy(self) ==
    LET tiled == [self EXCEPT !.coords_experimental_data = Tile(@, NumRows(self.X_train))]
        features_config == self.settings_probab_mapping.features_config
        r == CASE features_config = "man_features" -> IterManFeatures(tiled)
               [] features_config = "opt_features" -> IterOptFeatures(tiled)
               [] features_config = "coord_features" -> IterCoordFeatures(tiled)
               [] features_config = "no_features" -> IterNoFeatures(tiled)
               [] features_config = "time_features" -> IterTimeFeatures(tiled)
               [] OTHER -> Raise(tiled, "IOError", <<>>)
    IN  [r EXCEPT !.events = <<Ev("featurize", None)>> \o @]

\* ------------------------------------------------- specification: a run
\* What the input file can configure
FeatureConfigs ==
    {"no_features", "man_features", "opt_features", "coord_features", "time_features", "bogus"}

XColsChoices == {<<1>>, <<MaxDim, 1>>}

SettingsChoices ==
    {[features_config |-> f, num_features |-> k, X_cols |-> x] :
        f \in FeatureConfigs, k \in 0..MaxFeat, x \in XColsChoices}

\* settings that differ in what their features_config reads
Settings ==
    {st \in SettingsChoices :
        /\ st.features_config # "opt_features" => st.num_features = 0
        /\ st.features_config # "man_features" => st.X_cols = <<1>>}

RECURSIVE SortedSeq(_)
SortedSeq(S) == IF S = {} THEN <<>> ELSE <<Min(S)>> \o SortedSeq(S \ {Min(S)})

\* the training indices the BMFMC iterator can have chosen from a pool of n rows
TrainingIndices(n) ==
    {SortedSeq(S) : S \in {T \in SUBSET (1..n) : Cardinality(T) \in 1..MaxTrain}}

\* A BMFMCModel after load_sampling_data and after its iterator has chosen the
\* training points (X_train, Y_LFs_train, training_indices) and, if with_gammas,
\* has had the extended features calculated.
LoadedModel(settings, eval_fit, active_learning, predictive_var_bool, cmp, n, num_lfs, training_indices, with_gammas) ==
    LET X_mc == MonteCarloSamples(0, n, MaxDim)
        Y_LFs_mc == MonteCarloSamples(1, n, num_lfs)
        loaded == [NewModel(settings, eval_fit, active_learning, predictive_var_bool, cmp)
                     EXCEPT !.X_mc = X_mc,
                            !.Y_LFs_mc = Y_LFs_mc,
                            !.Y_HF_mc = [j \in 1..n |-> 100 + j],
                            !.X_train = Rows(X_mc, training_indices),
                            !.Y_LFs_train = Rows(Y_LFs_mc, training_indices),
                            !.training_indices = training_indices]
    IN  IF with_gammas THEN CalculateExtendedGammas(loaded) ELSE loaded

\* A BMFIAIterator after from_config_create_iterator and after the experimental
\* data (coordinates, time vector, observations) have been set
LoadedIterator(settings, seed, n, num_coords, num_times) ==
    [NewIterator(settings, RandomDesign(seed, n, MaxDim)) EXCEPT
        !.coords_experimental_data = [j \in 1..num_coords |-> <<j>>],
        !.time_vec = [t \in 1..num_times |-> t - 1],
        !.y_obs_vec = [j \in 1..num_coords |-> 2 * j + 1]]

RunInit ==
    /\ \/ /\ pc = "evaluate"
          /\ \E settings \in Settings, eval_fit \in {"kfold", "none"},
                active_learning \in BOOLEAN, predictive_var_bool \in BOOLEAN,
                cmp \in BOOLEAN, n \in 1..MaxPool, num_lfs \in 1..MaxLF,
                with_gammas \in BOOLEAN :
               \E training_indices \in TrainingIndices(n) :
                  model = LoadedModel(settings, eval_fit, active_learning,
                                      predictive_var_bool, cmp, n, num_lfs,
                                      training_indices, with_gammas)
          /\ iterator = IdleIterator
       \/ /\ pc = "core_run"
          /\ \E settings \in Settings, seed \in 0..MaxSeed, n \in 1..MaxTrain,
                num_coords \in 1..MaxCoords, num_times \in 1..MaxTime :
               iterator = LoadedIterator(settings, seed, n, num_coords, num_times)
          /\ model = IdleModel
       \/ /\ pc = "load_data"
          /\ \E settings \in Settings, cmp \in BOOLEAN :
               model = NewModel(settings, "none", FALSE, FALSE, cmp)
          /\ iterator = IdleIterator
    /\ trace = <<>>
    /\ err = "none"
    /\ loop = None
    /\ output = None

\* the run goes on at okpc with the result r of an operation of the model
ModelStep(r, okpc) ==
    /\ model' = r.self
    /\ err' = r.err
    /\ trace' = trace \o r.events
    /\ pc' = IF r.err = "none" THEN okpc ELSE "failed"
    /\ UNCHANGED <<iterator, loop, output>>

\* the run goes on at okpc with the result r of an operation of the iterator
IteratorStep(r, okpc) ==
    /\ iterator' = r.self
    /\ err' = r.err
    /\ trace' = trace \o r.events
    /\ pc' = IF r.err = "none" THEN okpc ELSE "failed"
    /\ UNCHANGED <<model, loop>>

\* BMFMCModel.compute_pymc_reference: the kernel density estimate of the HF
\* benchmark (np.any(Y_HF_mc) is false for None and for an all-zero benchmark)
ComputePymcReference(self) ==
    IF self.Y_HF_mc # None /\ \E j \in 1..Len(self.Y_HF_mc) : self.Y_HF_mc[j] # 0
      THEN [self EXCEPT !.p_yhf_mc = <<"kde", self.Y_HF_mc>>]
      ELSE self

\* BMFMCModel.evaluate, up to the comparison pass: a fresh interface and the
\* reference density
EvaluateStart ==
    /\ pc = "evaluate"
    /\ ModelStep(Ok(ComputePymcReference([model EXCEPT !.interface = NewInterface]), <<>>),
                 IF model.no_features_comparison_bool THEN "cmp_build" ELSE "build")

\* self.build_approximation(approx_case=False) and (approx_case=True)
BuildStep ==
    \/ /\ pc = "cmp_build"
       /\ ModelStep(BuildApproximation(model, FALSE), "cmp_map")
    \/ /\ pc = "build"
       /\ ModelStep(BuildApproximation(model, TRUE), "map")

\* the evaluation of the probabilistic mapping for the LF points
MapStep ==
    \/ /\ pc = "cmp_map"
       /\ ModelStep(MapBoth(model, model.Y_LFs_mc, model.Y_LFs_train), "cmp_stats")
    \/ /\ pc = "map"
       /\ ModelStep(MapBoth(model, model.Z_mc, model.Z_train), "stats")

\* self.compute_pyhf_statistics()
StatsStep ==
    \/ /\ pc = "cmp_stats"
       /\ ModelStep(ComputePyhfStatistics(model), "build")
    \/ /\ pc = "stats"
       /\ ModelStep(ComputePyhfStatistics(model), "emit")

\* gather and return the output
EmitStep ==
    /\ pc = "emit"
    /\ output' = [Z_mc |-> model.Z_mc, m_f_mc |-> model.m_f_mc, var_y_mc |-> model.var_y_mc,
                  p_yhf_mean |-> model.p_yhf_mean, p_yhf_var |-> model.p_yhf_var,
                  p_yhf_mc |-> model.p_yhf_mc, Z_train |-> model.Z_train]
    /\ trace' = Append(trace, Ev("emit", None))
    /\ pc' = "done"
    /\ UNCHANGED <<model, iterator, err, loop>>

\* BMFIAIterator.core_run: eval_model (the LF model, then the HF model)
CoreRunEvalLF ==
    /\ pc = "core_run"
    /\ IteratorStep(EvaluateLF(iterator), "eval_hf")
    /\ UNCHANGED output

CoreRunEvalHF ==
    /\ pc = "eval_hf"
    /\ IteratorStep(EvaluateHF(iterator), "set_features")
    /\ UNCHANGED output

\* BMFIAIterator.core_run: _set_feature_strategy, then return Z_train, Y_HF_train
CoreRunFeatures ==
    /\ pc = "set_features"
    /\ LET r == IterSetFeatureStrategy(iterator) IN
        /\ IteratorStep(r, "returned")
        /\ output' = IF r.err = "none" THEN <<r.self.Z_train, r.self.Y_HF_train>> ELSE output

\* BMFMCModel.load_sampling_data: the pool and the LF outputs are read from the LF
\* data files; the HF benchmark is read if there is an HF data iterator, and
\* NotImplementedError is raised if there is none.
LoadSamplingDataInto(self, has_hf_data_iterator, n, num_lfs) ==
    LET read == [self EXCEPT !.X_mc = MonteCarloSamples(0, n, MaxDim),
                             !.Y_LFs_mc = MonteCarloSamples(1, n, num_lfs)]
    IN  IF has_hf_data_iterator
          THEN Ok([read EXCEPT !.Y_HF_mc = [j \in 1..n |-> 100 + j]], <<>>)
          ELSE Raise(read, "NotImplementedError", <<>>)

\* A run that starts with the model as constructed: the sampling data are loaded
RunLoadSamplingData ==
    /\ pc = "load_data"
    /\ \E has_hf_data_iterator \in BOOLEAN, n \in 1..MaxPool, num_lfs \in 1..MaxLF :
          ModelStep(LoadSamplingDataInto(model, has_hf_data_iterator, n, num_lfs), "prepare")

\* The caller assigns training inputs of its own design and evaluates a model
\* whose sampling data were never loaded
RunSkipLoad ==
    /\ pc = "load_data"
    /\ \E seed \in 0..MaxSeed, k \in 1..MaxTrain :
          ModelStep(Ok([model EXCEPT !.X_train = RandomDesign(seed, k, MaxDim),
                                     !.Y_LFs_train = EvaluateModel(1, RandomDesign(seed, k, MaxDim), 1),
                                     !.training_indices = [i \in 1..k |-> i]], <<>>),
                    "evaluate")

\* What the caller does between load_sampling_data and evaluate: nothing, or it
\* assigns training inputs of a design of its own, which need not be pool rows
RunPrepare ==
    /\ pc = "prepare"
    /\ \/ ModelStep(Ok(model, <<>>), "evaluate")
       \/ \E seed \in 0..MaxSeed, k \in 1..Min({MaxTrain, Len(model.X_mc)}) :
             ModelStep(Ok([model EXCEPT
                             !.X_train = RandomDesign(seed, k, MaxDim),
                             !.Y_LFs_train = Rows(model.Y_LFs_mc, [i \in 1..k |-> i]),
                             !.training_indices = [i \in 1..k |-> i]], <<>>),
                       "evaluate")

RunNext ==
    \/ EvaluateStart \/ BuildStep \/ MapStep \/ StatsStep \/ EmitStep
    \/ CoreRunEvalLF \/ CoreRunEvalHF \/ CoreRunFeatures
    \/ RunLoadSamplingData \/ RunSkipLoad \/ RunPrepare

SpecRun == RunInit /\ [][RunNext]_vars

\* ------------------------------------------------- properties of a run
IsEvaluate == pc \in {"load_data", "prepare", "evaluate", "cmp_build", "cmp_map", "cmp_stats",
                      "build", "map", "stats", "emit", "done"}
                  \/ (pc = "failed" /\ iterator.X_train = None)
IsCoreRun == pc \in {"core_run", "eval_hf", "set_features", "returned"}
                 \/ (pc = "failed" /\ iterator.X_train # None)

RunSettings == IF IsCoreRun THEN iterator.settings_probab_mapping
               ELSE model.settings_probab_mapping

Calls == [k \in 1..Len(trace) |-> trace[k].call]

CountCalls(call) == Cardinality({k \in 1..Len(trace) : trace[k].call = call})

\* the stage of the pipeline a call belongs to (0: none of the four)
StageOf(call) ==
    CASE call = "featurize" -> 1
      [] call \in {"fit", "cv"} -> 2
      [] call \in {"map", "stats", "map_full_cov"} -> 3
      [] call = "emit" -> 4
      [] OTHER -> 0

IsStageCall(call) == StageOf(call) # 0

\* the stages of the trace, in order, consecutive calls of one stage taken once
RECURSIVE Collapse(_)
Collapse(q) ==
    IF Len(q) <= 1 THEN q
    ELSE IF q[1] = q[2] THEN Collapse(Tail(q))
    ELSE <<q[1]>> \o Collapse(Tail(q))

StageSeq == Collapse([k \in 1..Len(SelectSeq(Calls, IsStageCall)) |->
                          StageOf(SelectSeq(Calls, IsStageCall)[k])])

NonDecreasing(q) == \A a, b \in 1..Len(q) : a < b => q[a] <= q[b]

\* after the feature constructor of the generalized pass has returned
AfterFeatures == pc \in {"map", "stats", "emit", "done"}

InvalidNumFeatures ==
    /\ RunSettings.features_config = "opt_features"
    /\ RunSettings.num_features < 1

\* C2: with opt_features and num_features < 1 the run ends with a ValueError, and
\* no LF or HF model evaluation, no fit and no query of the mapping precedes it.
C2_ValidationFirst ==
    InvalidNumFeatures =>
        /\ \A k \in 1..Len(trace) :
              trace[k].call \notin {"lf_eval", "hf_eval", "fit", "map", "cv", "map_full_cov"}
        /\ pc \notin {"done", "returned"}

\* C3 as stated: in every run of evaluate the stages Featurize, Fit, Propagate,
\* Emit are entered in this order and none is entered again once left.
C3_StrictStageOrder == IsEvaluate => NonDecreasing(StageSeq)

\* C3 as amended: without the comparison pass and with no_features or
\* man_features the stages are entered in order, once each; the comparison pass
\* puts a Fit and a Propagate before Featurize, and opt_features fits and queries
\* the mapping inside Featurize, before the Fit stage.
C3_StageOrder ==
    IsEvaluate =>
        LET cmp == model.no_features_comparison_bool
            opt == model.settings_probab_mapping.features_config = "opt_features"
        IN  /\ (~cmp /\ ~opt) => NonDecreasing(StageSeq)
            /\ pc = "done" =>
                 StageSeq = (IF cmp THEN <<2, 3>> ELSE <<>>)
                            \o (IF opt THEN <<1, 2, 3, 2, 3, 4>> ELSE <<1, 2, 3, 4>>)

C3_Witness ==
    /\ pc = "done"
    /\ ~model.no_features_comparison_bool
    /\ model.settings_probab_mapping.features_config = "man_features"
    /\ StageSeq = <<1, 2, 3, 4>>

FitAfterMap ==
    \E a, b \in 1..Len(trace) : a < b /\ trace[a].call = "map" /\ trace[b].call = "fit"

\* C4 as stated: the mapping is fitted once per run of evaluate (twice at most,
\* and only under opt_features) and never again after the first map query.
C4_FitOnce ==
    IsEvaluate =>
        /\ ~FitAfterMap
        /\ pc = "done" =>
             \/ CountCalls("fit") = 1
             \/ /\ model.settings_probab_mapping.features_config = "opt_features"
                /\ CountCalls("fit") = 2

\* C4 as amended: without the comparison pass and with no_features or
\* man_features the mapping is fitted once, before the first map query; the
\* comparison pass adds one fit and opt_features adds one fit, each followed by
\* map queries before the next fit.
C4_FitCount ==
    IsEvaluate =>
        LET cmp == model.no_features_comparison_bool
            opt == model.settings_probab_mapping.features_config = "opt_features"
        IN  /\ (~cmp /\ ~opt) => ~FitAfterMap
            /\ model.interface # None => model.interface[1].fits = CountCalls("fit")
            /\ pc = "done" =>
                 /\ CountCalls("fit") = 1 + (IF cmp THEN 1 ELSE 0) + (IF opt THEN 1 ELSE 0)
                 /\ (cmp \/ opt) => FitAfterMap

C4_Witness ==
    /\ pc = "done"
    /\ ~model.no_features_comparison_bool
    /\ model.settings_probab_mapping.features_config = "no_features"
    /\ CountCalls("fit") = 1
    /\ CountCalls("map") = 2

OptFeaturesDone ==
    /\ IsEvaluate
    /\ AfterFeatures
    /\ model.settings_probab_mapping.features_config = "opt_features"
    /\ model.settings_probab_mapping.num_features >= 1

\* C8 as stated: after feature construction with opt_features and num_features
\* = k >= 1, Z_mc and Z_train each have exactly k more columns than Y_LFs_mc.
C8_ExactlyKColumns ==
    OptFeaturesDone =>
        /\ NumCols(model.Z_mc) = NumCols(model.Y_LFs_mc) + model.settings_probab_mapping.num_features
        /\ NumCols(model.Z_train) = NumCols(model.Y_LFs_mc) + model.settings_probab_mapping.num_features

\* C8 as amended: Z_mc and Z_train each have min(k, columns of gammas_ext_mc) more
\* columns than Y_LFs_mc, that is k more exactly when gammas_ext_mc has at least
\* k columns.
C8_FeatureCount ==
    OptFeaturesDone =>
        LET k == model.settings_probab_mapping.num_features
            added == Min({k, NumCols(model.gammas_ext_mc)})
        IN  /\ NumCols(model.Z_mc) = NumCols(model.Y_LFs_mc) + added
            /\ NumCols(model.Z_train) = NumCols(model.Y_LFs_mc) + added
            /\ \A i \in 1..Len(model.Z_mc) : Len(model.Z_mc[i]) = NumCols(model.Z_mc)
            /\ \A i \in 1..Len(model.Z_train) : Len(model.Z_train[i]) = NumCols(model.Z_mc)

C8_Witness ==
    /\ OptFeaturesDone
    /\ model.settings_probab_mapping.num_features > NumCols(model.gammas_ext_mc)
    /\ NumCols(model.gammas_ext_mc) >= 1

\* C10: with no_features, after feature construction Z_train equals Y_LF_train
\* and Z_mc equals Y_LF_mc, entry for entry, in the model and in the iterator.
C10_NoFeaturesIdentity ==
    /\ (IsEvaluate /\ AfterFeatures
          /\ model.settings_probab_mapping.features_config = "no_features") =>
            /\ model.Z_train = model.Y_LFs_train
            /\ model.Z_mc = model.Y_LFs_mc
            /\ model.Z_train = Rows(MonteCarloSamples(1, Len(model.X_mc), NumCols(model.Z_mc)),
                                    model.training_indices)
    /\ (pc = "returned" /\ iterator.settings_probab_mapping.features_config = "no_features") =>
            /\ iterator.Z_train = iterator.Y_LF_train
            /\ iterator.Z_train =
                 EvaluateModel(1, iterator.X_train, NumCols(iterator.Z_train))
            /\ output[1] = iterator.Y_LF_train

C10_Witness ==
    /\ pc = "done"
    /\ model.settings_probab_mapping.features_config = "no_features"
    /\ output.Z_train = model.Y_LFs_train
    /\ NumCols(model.Z_mc) >= 2

\* ------------------------------------------- posterior variance of p(y_HF)
\* Numbers of _calculate_p_yhf_var are exact rationals <<numerator, denominator>>
\* up to the exponent argument, which is kept in tenths, rounded.
VarValues == {1, 2}

\* -0.5 * log(det) in tenths, for the determinants two variances of VarValues
\* and an integer covariance can give
NegHalfLogTenths(det) ==
    CASE det = 1 -> 0 [] det = 2 -> -3 [] det = 3 -> -5 [] det = 4 -> -7
      [] det = 5 -> -8 [] det = 6 -> -9 [] det = 7 -> -10 [] det = 8 -> -10
      [] OTHER -> -11

\* IEEE arithmetic on the values a zero determinant produces: a finite number
\* is its sign (-1, 0, 1), the others are "pinf", "ninf" and "nan"
ExtTimes(sign, e) ==
    IF e = "nan" \/ sign = 0 THEN "nan"
    ELSE IF sign > 0 THEN e
    ELSE IF e = "pinf" THEN "ninf" ELSE "pinf"

ExtPlus(e1, e2) ==
    IF e1 = "nan" \/ e2 = "nan" \/ e1 # e2 THEN "nan" ELSE e1

Sign(x) == IF x > 0 THEN 1 ELSE IF x < 0 THEN -1 ELSE 0

\* 1 / det_sigma * entry for det_sigma = 0
InfTimes(entry) == ExtTimes(Sign(entry), "pinf")

\* b = einsum('ij,ij->i', dot(diff, inv_sigma), diff) at one support point, for
\* det_sigma = 0 (inv_sigma has infinite or nan entries)
QuadFormDetZero(d1, d2, var1, var2, covariance) ==
    LET a1 == ExtPlus(ExtTimes(Sign(d1), InfTimes(var2)),
                      ExtTimes(Sign(d2), InfTimes(0 - covariance)))
        a2 == ExtPlus(ExtTimes(Sign(d1), InfTimes(0 - covariance)),
                      ExtTimes(Sign(d2), InfTimes(var1)))
    IN  ExtPlus(ExtTimes(Sign(d1), a1), ExtTimes(Sign(d2), a2))

\* no limit on the arguments
ClipArgsNone(args) == args

\* args[args > 40] = 40 (a nan is not greater than 40)
ClipArgs(args) ==
    IF args.kind = "num" /\ args.tenths > 400 THEN [kind |-> "num", tenths |-> 400]
    ELSE IF args.kind = "pinf" THEN [kind |-> "num", tenths |-> 400]
    ELSE args

\* np.exp(args) of a double: overflow to inf above 709.78, nan for nan
ExpClass(args) ==
    CASE args.kind = "nan" -> "nan"
      [] args.kind = "pinf" -> "inf"
      [] args.kind = "ninf" -> "finite"
      [] OTHER -> IF args.tenths > 7097 THEN "inf" ELSE "finite"

\* The determinant clamp: a negative determinant becomes 1e-6 and the covariance
\* is damped by 0.95
ClampDet(det_sigma, covariance) ==
    IF det_sigma < 0
      THEN [det_sigma |-> <<1, 1000000>>, covariance |-> <<95 * covariance, 100>>]
      ELSE [det_sigma |-> <<det_sigma, 1>>, covariance |-> <<covariance, 1>>]

\* args = -0.5 * b + np.log(1 / c) at the support point s, before the clip, for
\* the clamped determinant and covariance cl
ArgsAt(s, mean1, var1, mean2, var2, cl) ==
    LET d1 == s - mean1
        d2 == s - mean2
        cn == cl.covariance[1]
        cd == cl.covariance[2]
        \* cd * (diff . [[var2, -cov], [-cov, var1]] . diff)
        quad == cd * d1 * d1 * var2 - 2 * d1 * d2 * cn + cd * d2 * d2 * var1
    IN  IF cl.det_sigma[1] = 0
          THEN LET b == QuadFormDetZero(d1, d2, var1, var2, cn)
               IN  [kind |-> IF b = "ninf" THEN "pinf" ELSE "nan", tenths |-> 0]
        ELSE IF cl.det_sigma[2] = 1
          \* -0.5 * quad / det - log(2 pi) - 0.5 log(det)
          THEN [kind |-> "num",
                tenths |-> (0 - ((5 * quad) \div cl.det_sigma[1])) - 18
                             + NegHalfLogTenths(cl.det_sigma[1])]
          \* det = 1e-6: -0.5 * (quad / cd) * 1e6 - log(2 pi) + 0.5 log(1e6)
          ELSE [kind |-> "num",
                tenths |-> (0 - ((5000000 \div cd) * quad)) - 18 + 69]

\* The term one pair of samples adds to yhf_pdf_grid: what it was computed from
\* and, per support point, the clipped exponent argument
PairTerm(pair, cov_index, mean1, var1, mean2, var2, covariance, points) ==
    LET cl == ClampDet(var1 * var2 - covariance * covariance, covariance) IN
    [ pair |-> pair,
      cov_index |-> cov_index,
      raw_det |-> var1 * var2 - covariance * covariance,
      raw_covariance |-> covariance,
      det_sigma |-> cl.det_sigma,
      covariance |-> cl.covariance,
      inv_sigma |-> <<<<var2, <<0 - cl.covariance[1], cl.covariance[2]>>>>,
                      <<<<0 - cl.covariance[1], cl.covariance[2]>>, var1>>>>,
      args |-> [p \in 1..Len(points) |->
                  ClipArgs(ArgsAt(points[p], mean1, var1, mean2, var2, cl))] ]

\* i = 1 before the loops
FirstI == 1

\* a normalisation by the counter itself
PYhfVarByCounter(i, yhf_pdf_grid, p_yhf_mean) ==
    [ sum |-> yhf_pdf_grid, divisor |-> i,
      minus |-> <<9995, 10000>>, squared |-> p_yhf_mean ]

\* self.p_yhf_var = 1 / (i - 1) * yhf_pdf_grid - 0.9995 * self.p_yhf_mean ** 2
PYhfVar(i, yhf_pdf_grid, p_yhf_mean) ==
    [ sum |-> yhf_pdf_grid, divisor |-> i - 1,
      minus |-> <<9995, 10000>>, squared |-> p_yhf_mean ]

\* The index into k_post for the inner enumerate index e of row num1 (both
\* counted from 0): num2 = num1 + num2
CovIndex(num1, e) == <<num1, num1 + e>>

\* The sample whose mean and variance the inner enumerate index e of row num1
\* yields: f_mean_pred[num1 + 1 :][e]
SecondSample(num1, e) == num1 + 1 + e

\* One iteration of the inner loop of _calculate_p_yhf_var
VarPairStep(lp, p_yhf_mean) ==
    LET num1 == lp.num1
        j == SecondSample(num1, lp.e)
        idx == CovIndex(num1, lp.e)
        term == PairTerm(<<num1, j>>, idx,
                         lp.f_mean_pred[num1 + 1], lp.yhf_var_pred[num1 + 1],
                         lp.f_mean_pred[j + 1], lp.yhf_var_pred[j + 1],
                         lp.k_post[idx[1] + 1][idx[2] + 1], lp.points)
        grid == [p \in 1..Len(lp.points) |-> Append(lp.yhf_pdf_grid[p], term.args[p])]
    IN  [ loop |-> [lp EXCEPT !.yhf_pdf_grid = grid,
                              !.i = @ + 1,
                              !.e = @ + 1,
                              !.terms = Append(@, term)],
          p_yhf_var |-> PYhfVar(lp.i + 1, grid, p_yhf_mean) ]

\* The predictions of the mapping for n MC samples: means, variances and the
\* full posterior covariance (symmetric, the variances on its diagonal)
Predictions(seed, cseed, n) ==
    LET var == [a \in 1..n |-> IF Draw(seed + 1, a) % 2 = 0 THEN 1 ELSE 2] IN
    [ f_mean_pred |-> [a \in 1..n |-> Draw(seed, a - 1)],
      yhf_var_pred |-> var,
      k_post |-> [a \in 1..n |-> [b \in 1..n |->
                    IF a = b THEN var[a]
                    ELSE ((cseed + a * b + a + b) % 5) - 2]] ]

\* The local state of _calculate_p_yhf_var before the loops
VarLoop(pred) ==
    [ f_mean_pred |-> pred.f_mean_pred,
      yhf_var_pred |-> pred.yhf_var_pred,
      k_post |-> pred.k_post,
      points |-> [p \in 1..NumSupport |-> p - 1],
      yhf_pdf_grid |-> [p \in 1..NumSupport |-> <<>>],
      i |-> FirstI,
      num1 |-> 0,
      e |-> 0,
      terms |-> <<>> ]

VarInit ==
    /\ pc = "var_loop"
    /\ \E seed \in 0..MaxSeed, cseed \in 0..MaxCovSeed, n \in 1..MaxSamples :
          loop = VarLoop(Predictions(seed, cseed, n))
    /\ model = [IdleModel EXCEPT !.predictive_var_bool = TRUE,
                                 !.p_yhf_mean = <<"p_yhf_mean">>]
    /\ iterator = IdleIterator
    /\ trace = <<>>
    /\ err = "none"
    /\ output = None

\* the body of the inner loop, for one pair of samples
VarPair ==
    /\ pc = "var_loop"
    /\ loop.num1 < Len(loop.f_mean_pred)
    /\ SecondSample(loop.num1, loop.e) < Len(loop.f_mean_pred)
    /\ LET r == VarPairStep(loop, model.p_yhf_mean) IN
        /\ loop' = r.loop
        /\ model' = [model EXCEPT !.p_yhf_var = r.p_yhf_var]
    /\ UNCHANGED <<pc, iterator, trace, err, output>>

\* the inner loop is exhausted: the next sample of the outer loop
VarNextRow ==
    /\ pc = "var_loop"
    /\ loop.num1 < Len(loop.f_mean_pred)
    /\ SecondSample(loop.num1, loop.e) >= Len(loop.f_mean_pred)
    /\ loop' = [loop EXCEPT !.num1 = @ + 1, !.e = 0]
    /\ UNCHANGED <<pc, model, iterator, trace, err, output>>

\* the outer loop is exhausted: _calculate_p_yhf_var returns
VarReturn ==
    /\ pc = "var_loop"
    /\ loop.num1 >= Len(loop.f_mean_pred)
    /\ pc' = "var_done"
    /\ UNCHANGED <<model, iterator, trace, err, loop, output>>

VarNext == VarPair \/ VarNextRow \/ VarReturn

SpecVar == VarInit /\ [][VarNext]_vars

InVar == pc \in {"var_loop", "var_done"}

\* C5: the term of the pair (i, j) is computed with the covariance k_post[i, j].
C5_CovarianceOfPair ==
    InVar => \A t \in 1..Len(loop.terms) : loop.terms[t].cov_index = loop.terms[t].pair

AllPairs(n) == {<<a, b>> : a \in 0..(n - 1), b \in 0..(n - 1)} \cap
               {q \in (0..(n - 1)) \X (0..(n - 1)) : q[1] < q[2]}

\* C6: every unordered pair of samples adds exactly one term, N(N-1)/2 in all,
\* and the final p_yhf_var is the sum of these terms over their number, minus
\* 0.9995 * p_yhf_mean^2.
C6_PairSum ==
    InVar =>
        LET n == Len(loop.f_mean_pred)
            terms == loop.terms
        IN  /\ \A t1, t2 \in 1..Len(terms) : t1 # t2 => terms[t1].pair # terms[t2].pair
            /\ \A t \in 1..Len(terms) : terms[t].pair \in AllPairs(n)
            /\ loop.i - 1 = Len(terms)
            /\ pc = "var_done" =>
                 /\ {terms[t].pair : t \in 1..Len(terms)} = AllPairs(n)
                 /\ 2 * Len(terms) = n * (n - 1)
                 /\ n >= 2 =>
                      /\ model.p_yhf_var.divisor = Len(terms)
                      /\ model.p_yhf_var.minus = <<9995, 10000>>
                      /\ model.p_yhf_var.squared = model.p_yhf_mean
                      /\ \A p \in 1..Len(loop.points) :
                            model.p_yhf_var.sum[p] = [t \in 1..Len(terms) |-> terms[t].args[p]]

C6_Witness ==
    /\ pc = "var_done"
    /\ Len(loop.f_mean_pred) = 3
    /\ model.p_yhf_var.divisor = 3

\* C7: a pair with a negative determinant is computed with the determinant 1e-6
\* and the covariance 0.95 * covariance, in the inverse too; its exponent
\* argument is at most 40 and its term is finite (and, an exponential, not
\* negative) at every support point.
C7_DeterminantClamp ==
    InVar =>
        \A t \in 1..Len(loop.terms) :
            LET term == loop.terms[t] IN
            term.raw_det < 0 =>
                /\ term.det_sigma = <<1, 1000000>>
                /\ term.covariance = <<95 * term.raw_covariance, 100>>
                /\ term.inv_sigma[1][2] = <<0 - 95 * term.raw_covariance, 100>>
                /\ term.inv_sigma[2][1] = <<0 - 95 * term.raw_covariance, 100>>
                /\ \A p \in 1..Len(term.args) :
                      /\ term.args[p].kind = "num"
                      /\ term.args[p].tenths <= 400
                      /\ ExpClass(term.args[p]) = "finite"

C7_Witness ==
    /\ InVar
    /\ \E t \in 1..Len(loop.terms) :
          /\ loop.terms[t].raw_det < 0
          /\ \E p \in 1..Len(loop.terms[t].args) : loop.terms[t].args[p].tenths = 400

\* ------------------------------------------- errors of the feature constructor
ModelConfigs == {"man_features", "opt_features", "no_features"}
IteratorConfigs == ModelConfigs \cup {"coord_features", "time_features"}

\* C11 as stated: the feature constructor called with an unknown features_config
\* raises a configuration error and leaves the whole object as it was.
C11_NoMutation ==
    /\ (IsEvaluate /\ model.settings_probab_mapping.features_config \notin ModelConfigs) =>
          LET r == SetFeatureStrategy(model) IN r.err = "ValueError" /\ r.self = model
    /\ (IsCoreRun /\ iterator.settings_probab_mapping.features_config \notin IteratorConfigs) =>
          LET r == IterSetFeatureStrategy(iterator) IN r.err = "IOError" /\ r.self = iterator

\* C11 as amended: with an unknown features_config BMFMCModel.set_feature_strategy
\* raises ValueError and changes nothing; BMFIAIterator._set_feature_strategy
\* raises IOError and leaves Z_train and all else as it was except
\* coords_experimental_data, which it has tiled to the number of training samples
\* before it looks at the configuration.
C11_FeaturesUntouched ==
    /\ (IsEvaluate /\ model.settings_probab_mapping.features_config \notin ModelConfigs) =>
          /\ LET r == SetFeatureStrategy(model) IN r.err = "ValueError" /\ r.self = model
          /\ model.Z_train = None /\ model.Z_mc = None
          /\ pc \notin {"map", "stats", "emit", "done"}
    /\ (IsCoreRun /\ iterator.settings_probab_mapping.features_config \notin IteratorConfigs) =>
          /\ LET r == IterSetFeatureStrategy(iterator) IN
                /\ r.err = "IOError"
                /\ r.self = [iterator EXCEPT !.coords_experimental_data =
                                                Tile(@, NumRows(iterator.X_train))]
          /\ iterator.Z_train = None
          /\ output = None
          /\ pc # "returned"

C11_Witness ==
    /\ pc = "failed"
    /\ err = "IOError"
    /\ iterator.settings_probab_mapping.features_config = "bogus"
    /\ NumRows(iterator.X_train) >= 2
    /\ NumRows(iterator.coords_experimental_data) > MaxCoords

\* C12: after feature construction with a supported features_config, Z_train
\* has as many rows as Y_LF_train and Z_mc as many rows as Y_LF_mc.
C12_RowAlignment ==
    /\ (IsEvaluate /\ AfterFeatures
          /\ model.settings_probab_mapping.features_config \in ModelConfigs) =>
            /\ NumRows(model.Z_train) = NumRows(model.Y_LFs_train)
            /\ NumRows(model.Z_mc) = NumRows(model.Y_LFs_mc)
    /\ (pc = "returned"
          /\ iterator.settings_probab_mapping.features_config \in IteratorConfigs) =>
            NumRows(iterator.Z_train) = NumRows(iterator.Y_LF_train)

\* --------------------------------------------------- the HF training data
\* C13: after a successful get_hf_training_data, Y_HF_train has one row per row
\* of X_train, and row i holds the HF benchmark output of the lowest pool row
\* that equals X_train[i].
C13_HfTrainingData ==
    pc = "matched" =>
        /\ Len(model.Y_HF_train) = Len(model.X_train)
        /\ \A i \in 1..Len(model.X_train) :
              \E j \in 1..Len(model.X_mc) :
                  /\ model.X_mc[j] = model.X_train[i]
                  /\ \A j2 \in 1..(j - 1) : model.X_mc[j2] # model.X_train[i]
                  /\ model.Y_HF_train[i] = <<model.Y_HF_mc[j]>>

C13_Witness ==
    /\ pc = "matched"
    /\ Len(model.X_train) >= 2
    /\ \E i \in 1..Len(model.X_train) :
          Cardinality(MatchingRows(model.X_mc, model.X_train[i])) >= 2

\* a training row that no pool row equals
Unmatched(self) ==
    /\ self.X_train # None
    /\ self.Y_HF_mc # None
    /\ \E i \in 1..Len(self.X_train) : MatchingRows(self.X_mc, self.X_train[i]) = {}

MappingCalls == {"hf_lookup", "fit", "map", "cv", "map_full_cov"}

BeforeFirstFit == pc \in {"evaluate", "cmp_build", "build", "failed"}

\* C14: with a row of X_train that no row of X_mc equals, get_hf_training_data
\* fails (IndexError), Y_HF_train stays as it was, and the run neither builds nor
\* queries the mapping.
C14_UnmatchedRowFails ==
    (IsEvaluate /\ pc \notin {"load_data", "prepare"} /\ Unmatched(model)) =>
        /\ LET r == GetHfTrainingData(model) IN r.err = "IndexError" /\ r.self = model
        /\ model.Y_HF_train = None
        /\ \A k \in 1..Len(trace) : trace[k].call \notin MappingCalls
        /\ model.interface # None => model.interface[1].fits = 0
        /\ BeforeFirstFit
        /\ pc = "failed" => err = "IndexError"

C14_Witness ==
    /\ pc = "failed"
    /\ err = "IndexError"
    /\ Unmatched(model)
    /\ \E i \in 1..Len(model.X_train) : MatchingRows(model.X_mc, model.X_train[i]) # {}

IterOptFeaturesValid ==
    /\ IsCoreRun
    /\ iterator.settings_probab_mapping.features_config = "opt_features"
    /\ iterator.settings_probab_mapping.num_features >= 1

\* C16 as stated: with active_learning, build_approximation raises
\* NotImplementedError before the mapping is fitted or cross-validated; with
\* opt_features the BMFIA variant raises it before Z_train is changed.
C16_FailsBeforeFit ==
    /\ (IsEvaluate /\ model.active_learning) =>
          /\ CountCalls("fit") = 0
          /\ CountCalls("cv") = 0
          /\ pc # "done"
    /\ IterOptFeaturesValid =>
          /\ iterator.Z_train = None
          /\ pc # "returned"
          /\ pc = "failed" => err = "NotImplementedError"

\* C16 as amended: with active_learning the first build_approximation of evaluate
\* never returns, so evaluate makes none of its own map queries and gives no
\* output; the NotImplementedError is raised at the end of build_approximation,
\* after the mapping has been fitted and, under kfold, cross-validated (an
\* earlier error of the lookup, the feature constructor or the cross-validation
\* takes its place).  With opt_features the BMFIA variant raises
\* NotImplementedError with Z_train unchanged.
C16_FailsAfterFit ==
    /\ (IsEvaluate /\ model.active_learning) =>
          /\ pc \notin {"cmp_map", "cmp_stats", "map", "stats", "emit", "done"}
          /\ output = None
          /\ model.no_features_comparison_bool => CountCalls("featurize") = 0
          /\ (pc = "failed" /\ err = "NotImplementedError") =>
                /\ CountCalls("fit") >= 1
                /\ trace[Len(trace)].call = IF model.eval_fit = "kfold" THEN "cv" ELSE "fit"
                /\ model.interface[1].fits = CountCalls("fit")
          /\ (pc = "failed" /\ CountCalls("fit") = 0) => err # "NotImplementedError"
    /\ IterOptFeaturesValid =>
          /\ iterator.Z_train = None
          /\ output = None
          /\ pc # "returned"
          /\ pc = "failed" => err = "NotImplementedError"

C16_Witness ==
    /\ pc = "failed"
    /\ err = "NotImplementedError"
    /\ model.active_learning
    /\ model.eval_fit = "kfold"
    /\ CountCalls("fit") = 1
    /\ CountCalls("cv") = 1

\* ------------------------------------------------- random-field reduction
\* A dictionary is the sequence of its <<key, value>> items, in insertion order.
FieldNames == <<"field_a", "field_b", "field_c", "field_d">>

CorrStructs == {"non_stationary_squared_exp", "squared_exp"}

\* the eigenvalue lists a data file can hold for one field
EigenvalChoices == {<<99, 50>>, <<10, 96>>, <<10, 20>>}

\* explained_var as input_dim_red passes it
ExplainedVar == 95

\* M[:, lo:hi], columns counted from 0, the bounds cut to the columns there are
SliceCols(M, lo, hi) ==
    [i \in 1..Len(M) |-> SubSeq(M[i], lo + 1, Min({hi, Len(M[i])}))]

\* [idx for idx, eigenval in enumerate(eigenvals) if eigenval > explained_var]
TruncationIndices(eigenvals, explained_var) ==
    {idx \in 0..(Len(eigenvals) - 1) : eigenvals[idx + 1] > explained_var}

\* The local state of get_random_fields_and_truncated_basis before the loop;
\* random_fields_trunc_dict is not bound yet.
FieldLoop(self) ==
    [ num_random_var |-> self.uncertain_parameters.random_variables,
      x_uncorr |-> SliceCols(self.X_mc, 0, self.uncertain_parameters.random_variables),
      dim_random_fields |-> 0,
      r |-> 0,
      bound |-> FALSE,
      random_fields_trunc_dict |-> <<>> ]

\* One iteration of the loop over the zipped items of random_fields,
\* eigenfunc_random_fields and eigenvals.  The message of the NotImplementedError
\* is formatted from random_field.get('corrstruct'), random_field being the
\* (name, description) tuple: the formatting raises AttributeError.
FieldRound(lp, self, explained_var) ==
    LET random_field == self.uncertain_parameters.random_fields[lp.r + 1]
        basis == self.eigenfunc_random_fields[lp.r + 1]
        eigenvals == self.eigenvals[lp.r + 1]
        lo == lp.num_random_var + lp.dim_random_fields
        samples == SliceCols(self.X_mc, lo, lo + random_field[2].num_points)
        found == TruncationIndices(eigenvals[2], explained_var)
        started == [lp EXCEPT !.bound = TRUE,
                              !.random_fields_trunc_dict =
                                  <<<<random_field[1], [samples |-> samples]>>>>]
    IN  IF random_field[2].corrstruct # "non_stationary_squared_exp"
          THEN [loop |-> lp, err |-> "AttributeError"]
        ELSE IF found = {}
          THEN [loop |-> started, err |-> "IndexError"]
        ELSE [loop |-> [lp EXCEPT
                          !.bound = TRUE,
                          !.random_fields_trunc_dict =
                              <<<<random_field[1],
                                  [samples |-> samples,
                                   trunc_basis |-> SubSeq(basis[2], 1, Min(found))]>>>>,
                          !.dim_random_fields = @ + random_field[2].num_points,
                          !.r = @ + 1],
              err |-> "none"]

\* the description of one random field as the input file gives it
FieldDescriptions ==
    [corrstruct : CorrStructs, num_points : 1..MaxPoints]

\* The model after load_sampling_data of a problem with k random variables and
\* the random fields desc, their eigenvalue lists eig and their eigenfunctions
FieldModel(k, desc, eig) ==
    LET width == k + SumSeq([q \in 1..Len(desc) |-> desc[q].num_points]) IN
    [IdleModel EXCEPT
        !.X_mc = MonteCarloSamples(0, 2, width),
        !.uncertain_parameters =
            [random_variables |-> k,
             random_fields |-> [q \in 1..Len(desc) |-> <<FieldNames[q], desc[q]>>]],
        !.eigenfunc_random_fields =
            [q \in 1..Len(desc) |->
                <<FieldNames[q], [e \in 1..Len(eig[q]) |->
                                    [x \in 1..desc[q].num_points |-> 10 * e + x]]>>],
        !.eigenvals = [q \in 1..Len(desc) |-> <<FieldNames[q], eig[q]>>]]

FieldInit ==
    /\ pc = "fields"
    /\ \E k \in 0..MaxDim, m \in 0..MaxFields :
          \E desc \in [1..m -> FieldDescriptions], eig \in [1..m -> EigenvalChoices] :
              model = FieldModel(k, desc, eig)
    /\ loop = FieldLoop(model)
    /\ iterator = IdleIterator
    /\ trace = <<>>
    /\ err = "none"
    /\ output = None

\* the loop body, for the next random field
FieldStep ==
    /\ pc = "fields"
    /\ loop.r < Len(model.uncertain_parameters.random_fields)
    /\ LET res == FieldRound(loop, model, ExplainedVar) IN
        /\ loop' = res.loop
        /\ err' = res.err
        /\ pc' = IF res.err = "none" THEN "fields" ELSE "fields_failed"
    /\ UNCHANGED <<model, iterator, trace, output>>

\* return x_uncorr, random_fields_trunc_dict: without a random field the name
\* random_fields_trunc_dict was never bound
FieldReturn ==
    /\ pc = "fields"
    /\ loop.r >= Len(model.uncertain_parameters.random_fields)
    /\ IF loop.bound
         THEN /\ output' = <<loop.x_uncorr, loop.random_fields_trunc_dict>>
              /\ pc' = "fields_done"
              /\ err' = "none"
         ELSE /\ output' = output
              /\ pc' = "fields_failed"
              /\ err' = "UnboundLocalError"
    /\ UNCHANGED <<model, iterator, trace, loop>>

FieldNext == FieldStep \/ FieldReturn

SpecField == FieldInit /\ [][FieldNext]_vars

InField == pc \in {"fields", "fields_done", "fields_failed"}

\* the fields whose corrstruct is not the supported one
Unsupported ==
    {q \in 1..Len(model.uncertain_parameters.random_fields) :
        model.uncertain_parameters.random_fields[q][2].corrstruct
            # "non_stationary_squared_exp"}

\* C17: with a random field whose corrstruct is not non_stationary_squared_exp
\* the call ends with a NotImplementedError and with no other exception, and
\* returns no truncated basis.
C17_NotImplementedError ==
    (InField /\ Unsupported # {}) =>
        /\ pc # "fields_done"
        /\ output = None
        /\ pc = "fields_failed" => err = "NotImplementedError"

\* C18: the returned dictionary has one entry per random field, under the
\* field's name, and the samples of field r are the columns of X_mc after the
\* random variables and after the points of the fields before r.
C18_EntryPerField ==
    pc = "fields_done" =>
        LET fields == model.uncertain_parameters.random_fields
            dict == output[2]
            offset(q) == model.uncertain_parameters.random_variables
                           + SumSeq([x \in 1..(q - 1) |-> fields[x][2].num_points])
        IN  /\ Len(dict) = Len(fields)
            /\ \A q \in 1..Len(fields) :
                  /\ dict[q][1] = fields[q][1]
                  /\ dict[q][2].samples =
                        SliceCols(model.X_mc, offset(q), offset(q) + fields[q][2].num_points)

\* ------------------------------------------------ the statistics and the mapping
\* C19: compute_pyhf_statistics computes the posterior variance exactly when
\* predictive_var_bool is set: without it the full covariance is never asked
\* for and p_yhf_var is None; with it p_yhf_var is computed afresh from the
\* current predictions, whatever the number of MC samples.
C19_VarianceGate ==
    (IsEvaluate /\ pc \in {"emit", "done"}) =>
        IF model.predictive_var_bool
          THEN /\ model.p_yhf_var = <<"p_yhf_var", model.p_yhf_mean>>
               /\ CountCalls("map_full_cov") >= 1
          ELSE /\ model.p_yhf_var = None
               /\ CountCalls("map_full_cov") = 0

MapperCalls == {"map", "cv", "map_full_cov"}

\* C20: in a run of evaluate every map query and every cross-validation of the
\* mapping comes after a completed fit, and eval_surrogate_accuracy_cv on a
\* mapping that was not fitted raises RuntimeError without cross-validating.
C20_BuildBeforeUse ==
    IsEvaluate =>
        /\ \A k \in 1..Len(trace) :
              trace[k].call \in MapperCalls =>
                  \E j \in 1..(k - 1) : trace[j].call = "fit"
        /\ pc \in {"cmp_map", "cmp_stats", "map", "stats", "emit", "done"} =>
              model.interface[1].fits >= 1
        /\ (model.interface # None /\ model.interface[1].fits = 0) =>
              LET r == EvalSurrogateAccuracyCv(model, model.Y_LFs_train) IN
                  /\ r.err = "RuntimeError"
                  /\ r.events = <<>>
                  /\ r.self = model

C20_Witness ==
    /\ pc = "done"
    /\ model.eval_fit = "kfold"
    /\ CountCalls("cv") >= 1
    /\ CountCalls("map") >= 2
    /\ CountCalls("map_full_cov") >= 1

\* ------------------------------------------ the standardised input features
\* two entries of a standardised matrix name the same value
StdEq(e1, e2) ==
    IF e1[2] = 0 \/ e2[2] = 0
      THEN (e1[2] = 0 \/ e1[1] = 0) /\ (e2[2] = 0 \/ e2[1] = 0)
      ELSE Sign(e1[1]) = Sign(e2[1]) /\ e1[1] * e1[1] * e2[2] = e2[1] * e2[1] * e1[2]

IsCoreRunEnd == pc \in {"returned", "failed"} /\ iterator.X_train # None

\* C21: in a core_run with features_config = 'man_features' the features are
\* constructed, and the entry of Z_train for appended column k, training sample
\* i and coordinate j is column X_cols[k] of X_train standardised over the rows
\* of X_train, taken at row i; this for one selected column and for more.
C21_StandardizedPerFeature ==
    (IsCoreRunEnd /\ iterator.settings_probab_mapping.features_config = "man_features") =>
        LET idx_vec == iterator.settings_probab_mapping.X_cols
            expected == FitTransform(Cols(iterator.X_train, idx_vec))
        IN  /\ pc = "returned"
            /\ Len(iterator.Z_train) = 1 + Len(idx_vec)
            /\ \A k \in 1..Len(idx_vec) : \A i \in 1..Len(iterator.X_train) :
                  \A j \in 1..Len(iterator.Z_train[1 + k][i]) :
                      StdEq(iterator.Z_train[1 + k][i][j], expected[i][k])

\* --------------------------------------------- the Metropolis-Hastings choice
\* the resolution of the unit interval: a probability or a uniform draw is a
\* whole number of 1 / MhGrid
MhGrid == 10

\* np.log of a non-negative number: minus infinity at 0, increasing elsewhere
Log(x) == IF x = 0 THEN <<"ninf", 0>> ELSE <<"fin", x>>

\* a < b of two logarithms; minus infinity is not below itself
LogLess(a, b) ==
    IF b[1] = "ninf" THEN FALSE
    ELSE IF a[1] = "ninf" THEN TRUE
    ELSE a[2] < b[2]

\* a selection that takes the proposal also when the two logarithms are equal
MhSelectOrEqual(log_acceptance_probability, current_sample, proposed_sample, u) ==
    IF ~LogLess(log_acceptance_probability, Log(u))
      THEN <<proposed_sample, TRUE>>
      ELSE <<current_sample, FALSE>>

\* mh_select, with u the value np.random.uniform() returns
MhSelect(log_acceptance_probability, current_sample, proposed_sample, u) ==
    IF LogLess(Log(u), log_acceptance_probability)
      THEN <<proposed_sample, TRUE>>
      ELSE <<current_sample, FALSE>>

\* A sample is an object: its identity and its value
MhSamples == { <<id, value>> : id \in {"a", "b"}, value \in {3, 6} }

MhInit ==
    /\ pc = "mh_select"
    /\ \E p \in 0..(MhGrid + 2), u \in 0..(MhGrid - 1), c \in MhSamples, q \in MhSamples :
          /\ c[1] # q[1]
          /\ loop = [acceptance_probability |-> p, u |-> u,
                     current_sample |-> c, proposed_sample |-> q]
    /\ model = IdleModel
    /\ iterator = IdleIterator
    /\ trace = <<>>
    /\ err = "none"
    /\ output = None

\* selected_sample, accepted = mh_select(np.log(acceptance_probability), ...)
MhSelectCall ==
    /\ pc = "mh_select"
    /\ output' = MhSelect(Log(loop.acceptance_probability), loop.current_sample,
                          loop.proposed_sample, loop.u)
    /\ pc' = "mh_selected"
    /\ UNCHANGED <<model, iterator, trace, err, loop>>

MhNext == MhSelectCall

SpecMh == MhInit /\ [][MhNext]_vars

\* C22: mh_select returns (proposed, True) exactly when the uniform draw u has
\* log(u) < log_acceptance_probability, which for a draw of [0, 1) is u below
\* the acceptance probability, and (current, False) otherwise; so a probability
\* of 1 or more always accepts, a probability of 0 always rejects, and the
\* sample returned is one of the two objects handed in.
C22_MhSelect ==
    pc = "mh_selected" =>
        /\ output[2] = (loop.u < loop.acceptance_probability)
        /\ output[1] = (IF output[2] THEN loop.proposed_sample ELSE loop.current_sample)
        /\ loop.acceptance_probability >= MhGrid => output = <<loop.proposed_sample, TRUE>>
        /\ loop.acceptance_probability = 0 => output = <<loop.current_sample, FALSE>>

C22_Witness ==
    /\ pc = "mh_selected"
    /\ loop.acceptance_probability = 0
    /\ loop.u = 0
    /\ loop.current_sample[2] = loop.proposed_sample[2]
    /\ output = <<loop.current_sample, FALSE>>

\* ------------------------------------------------- the determinant of a pair
\* C23: for every pair of samples the determinant used in 1 / det_sigma and in
\* sqrt(4 pi^2 det_sigma) is strictly positive, also for a pair whose
\* determinant var1 * var2 - covariance^2 is exactly zero, and so no exponent
\* argument is infinite or undefined.
C23_DeterminantPositive ==
    InVar =>
        \A t \in 1..Len(loop.terms) :
            /\ loop.terms[t].det_sigma[1] > 0
            /\ \A p \in 1..Len(loop.terms[t].args) : loop.terms[t].args[p].kind = "num"

\* ------------------------------------------------- the k-fold error measure
\* the last fit before position k of the trace
LastFitBefore(k) ==
    LET fits == { j \in 1..(k - 1) : trace[j].call = "fit" }
    IN  CHOOSE j \in fits : \A x \in fits : x <= j

\* C24: with eval_fit = 'kfold' every cross-validation of a run of evaluate is
\* run on the matrix the mapping was just fitted on (Z_train with features,
\* Y_LFs_train in the comparison pass), and that matrix is not None.
C24_CrossValidatesFittedInput ==
    IsEvaluate =>
        \A k \in 1..Len(trace) :
            trace[k].call = "cv" =>
                /\ trace[k].arg # None
                /\ \E j \in 1..(k - 1) : trace[j].call = "fit"
                /\ trace[k].arg = trace[LastFitBefore(k)].arg

\* ------------------------------- the likelihood buffer of the PyMC sampler
MaxSampleValue == 1
MaxCalls == 4
ChainChoices == {1, 2}

\* the sample arrays a request can hold: one value per chain
SampleArrays(num_chains) == [1..num_chains -> 0..MaxSampleValue]

\* model.evaluate(samples) of a deterministic model: one log-likelihood per chain
ModelEvaluate(samples) == [c \in 1..Len(samples) |-> 0 - (samples[c] - 1) * (samples[c] - 1)]

\* PyMCIterator.__init__: nothing buffered, no forward evaluation counted
NewMhIterator(num_chains) ==
    [ num_chains |-> num_chains, buffered_samples |-> None,
      buffered_likelihoods |-> None, model_fwd_evals |-> 0 ]

\* an evaluation that also consults the newest buffered sample
EvalLogLikelihoodNewest(self, samples) ==
    LET hit == IF self.buffered_samples = None THEN {}
               ELSE { k \in 1..3 : self.buffered_samples[k] = samples }
        log_likelihood == IF hit = {} THEN ModelEvaluate(samples)
                          ELSE self.buffered_likelihoods[CHOOSE k \in hit : TRUE]
        buf == IF self.buffered_samples = None THEN <<samples, samples, samples>>
               ELSE self.buffered_samples
        lik == IF self.buffered_samples = None
                 THEN <<log_likelihood, log_likelihood, log_likelihood>>
                 ELSE self.buffered_likelihoods
    IN  [ self |-> [self EXCEPT
                      !.model_fwd_evals = IF hit = {} THEN @ + self.num_chains ELSE @,
                      !.buffered_samples = Append(Tail(buf), samples),
                      !.buffered_likelihoods = Append(Tail(lik), log_likelihood)],
          err |-> "none",
          events |-> IF hit = {} THEN <<Ev("evaluate", samples)>> ELSE <<>>,
          log_likelihood |-> log_likelihood ]

\* an evaluation that answers a hit on the second entry from the first
EvalLogLikelihoodFirstEntry(self, samples) ==
    LET first == self.buffered_samples = None
        hit0 == ~first /\ self.buffered_samples[1] = samples
        hit1 == ~first /\ ~hit0 /\ self.buffered_samples[2] = samples
        called == ~hit0 /\ ~hit1
        log_likelihood == IF hit0 \/ hit1 THEN self.buffered_likelihoods[1]
                          ELSE ModelEvaluate(samples)
        buf == IF first THEN <<samples, samples, samples>> ELSE self.buffered_samples
        lik == IF first THEN <<log_likelihood, log_likelihood, log_likelihood>>
               ELSE self.buffered_likelihoods
    IN  [ self |-> [self EXCEPT
                      !.model_fwd_evals = IF called THEN @ + self.num_chains ELSE @,
                      !.buffered_samples = Append(Tail(buf), samples),
                      !.buffered_likelihoods = Append(Tail(lik), log_likelihood)],
          err |-> "none",
          events |-> IF called THEN <<Ev("evaluate", samples)>> ELSE <<>>,
          log_likelihood |-> log_likelihood ]

\* MetropolisHastingsPyMCIterator.eval_log_likelihood
EvalLogLikelihood(self, samples) ==
    LET first == self.buffered_samples = None
        hit0 == ~first /\ self.buffered_samples[1] = samples
        hit1 == ~first /\ ~hit0 /\ self.buffered_samples[2] = samples
        called == ~hit0 /\ ~hit1
        log_likelihood == IF hit0 THEN self.buffered_likelihoods[1]
                          ELSE IF hit1 THEN self.buffered_likelihoods[2]
                          ELSE ModelEvaluate(samples)
        buf == IF first THEN <<samples, samples, samples>> ELSE self.buffered_samples
        lik == IF first THEN <<log_likelihood, log_likelihood, log_likelihood>>
               ELSE self.buffered_likelihoods
    IN  [ self |-> [self EXCEPT
                      !.model_fwd_evals = IF called THEN @ + self.num_chains ELSE @,
                      !.buffered_samples = Append(Tail(buf), samples),
                      !.buffered_likelihoods = Append(Tail(lik), log_likelihood)],
          err |-> "none",
          events |-> IF called THEN <<Ev("evaluate", samples)>> ELSE <<>>,
          log_likelihood |-> log_likelihood ]

BufInit ==
    /\ pc = "sampling"
    /\ \E num_chains \in ChainChoices : iterator = NewMhIterator(num_chains)
    /\ loop = [samples |-> None, calls |-> 0, evaluate_calls |-> 0]
    /\ model = IdleModel
    /\ trace = <<>>
    /\ err = "none"
    /\ output = None

\* one call of eval_log_likelihood by the sampler; trace holds the model calls
\* this call made
BufCall ==
    /\ pc = "sampling"
    /\ loop.calls < MaxCalls
    /\ \E samples \in SampleArrays(iterator.num_chains) :
          LET r == EvalLogLikelihood(iterator, samples) IN
              /\ iterator' = r.self
              /\ output' = r.log_likelihood
              /\ trace' = r.events
              /\ loop' = [samples |-> samples, calls |-> loop.calls + 1,
                          evaluate_calls |-> loop.evaluate_calls + Len(r.events)]
    /\ UNCHANGED <<pc, model, err>>

BufNext == BufCall

SpecBuf == BufInit /\ [][BufNext]_vars

\* a step of the sampler is a call of eval_log_likelihood
IsBufCall == loop'.calls = loop.calls + 1

\* the model was called in the call that led to the next state
ModelCalled == trace' # <<>>

\* C25: eval_log_likelihood calls the forward model, and adds num_chains to
\* model_fwd_evals, only when the requested samples equal none of the buffered
\* samples; a request equal to any of them, the newest included, is answered
\* from the buffer.
C25_CallsOnlyOnMiss ==
    [][IsBufCall =>
          /\ ModelCalled <=>
                \/ iterator.buffered_samples = None
                \/ \A k \in 1..3 : iterator.buffered_samples[k] # loop'.samples
          /\ iterator'.model_fwd_evals = iterator.model_fwd_evals
                + (IF ModelCalled THEN iterator.num_chains ELSE 0)]_vars

\* C25 as amended: the forward model is called, and num_chains added to
\* model_fwd_evals, exactly when nothing is buffered or the requested samples
\* equal neither of the two older buffered samples; the newest buffered sample
\* is not consulted.
C25_CallsOnOlderMiss ==
    [][IsBufCall =>
          /\ ModelCalled <=>
                \/ iterator.buffered_samples = None
                \/ /\ iterator.buffered_samples[1] # loop'.samples
                   /\ iterator.buffered_samples[2] # loop'.samples
          /\ iterator'.model_fwd_evals = iterator.model_fwd_evals
                + (IF ModelCalled THEN iterator.num_chains ELSE 0)]_vars

\* the newest buffered sample was asked for again and the model was called
C25_Witness ==
    /\ loop.calls >= 2
    /\ trace = <<Ev("evaluate", loop.samples)>>
    /\ iterator.buffered_samples[2] = loop.samples
    /\ iterator.buffered_samples[1] # loop.samples

\* C26: after any sequence of calls the two buffers hold three entries each,
\* every buffered likelihood is the model's log-likelihood of the buffered
\* sample at the same place, the last entry is the latest request, the value
\* returned is the model's log-likelihood of the request, and model_fwd_evals
\* is num_chains times the number of model calls.
C26_BufferConsistent ==
    loop.calls >= 1 =>
        /\ Len(iterator.buffered_samples) = 3
        /\ Len(iterator.buffered_likelihoods) = 3
        /\ \A k \in 1..3 :
              iterator.buffered_likelihoods[k] = ModelEvaluate(iterator.buffered_samples[k])
        /\ iterator.buffered_samples[3] = loop.samples
        /\ output = ModelEvaluate(loop.samples)
        /\ iterator.model_fwd_evals = iterator.num_chains * loop.evaluate_calls

C26_Witness ==
    /\ loop.calls >= 3
    /\ trace = <<>>
    /\ iterator.num_chains = 2
    /\ iterator.buffered_samples[1] = loop.samples
    /\ iterator.buffered_samples[2] # loop.samples
    /\ loop.evaluate_calls >= 2
    /\ output # ModelEvaluate(iterator.buffered_samples[2])

\* --------------------------- variational inference with reparameterization
MaxFeval == 4
MaxSamplesPerIter == 2
MaxVariables == 1
MaxAverage == 2

\* min_relative_change_variational_params, in hundredths
MinChange == 1

\* the dummy value appended after a NaN change, in hundredths
DummyChange == 100

\* the relative changes an update can produce per variational parameter, in
\* hundredths, NaN for a simulation that did not converge
ChangeValues == {<<"nan", 0>>, <<"num", 0>>, <<"num", 2>>}

IsNan(x) == x[1] = "nan"

VecEntry(v) == [kind |-> "vec", v |-> v]
ScalarEntry(x) == [kind |-> "scalar", v |-> <<"num", x>>]

\* np.any(np.isnan(entry))
AnyNan(entry) ==
    IF entry.kind = "vec" THEN \E c \in 1..Len(entry.v) : IsNan(entry.v[c]) ELSE FALSE

\* VIRPIterator.from_config_create_iterator, then initialize_run
NewVirp(max_feval, n_samples_per_iter, num_variables, num_iter_average_convergence, ragged_raises) ==
    [ max_feval |-> max_feval, n_samples_per_iter |-> n_samples_per_iter,
      num_variables |-> num_variables,
      num_iter_average_convergence |-> num_iter_average_convergence,
      min_requ_relative_change_variational_params |-> MinChange,
      iteration_num |-> 0, n_sims |-> 0,
      relative_change_variational_params |-> <<>>,
      variational_params |-> [version |-> 0, nan |-> FALSE],
      variational_params_array |-> <<>>,
      distribution_params |-> [version |-> 0, nan |-> FALSE],
      ragged_raises |-> ragged_raises ]

\* lst[-k:]
LastK(lst, k) == SubSeq(lst, IF Len(lst) > k THEN Len(lst) - k + 1 ELSE 1, Len(lst))

\* np.any(np.mean(window, axis=0) > min_requ): a scalar entry is broadcast over
\* the components, a NaN in a component makes its mean NaN and the comparison
\* false
AnyMeanAbove(window, width, min_requ) ==
    \E c \in 1..width :
       LET at(k) == IF window[k].kind = "vec" THEN window[k].v[c] ELSE window[k].v
       IN  /\ \A k \in 1..Len(window) : ~IsNan(at(k))
           /\ SumSeq([k \in 1..Len(window) |-> at(k)[2]]) > min_requ * Len(window)

\* VIRPIterator._check_convergence: True while not converged.  A window that
\* mixes arrays and the scalar dummy is a ragged list: np.mean raises
\* ValueError or averages it as an object array, depending on the numpy in use.
CheckConvergence(self) ==
    IF self.iteration_num > self.num_iter_average_convergence
      THEN LET lst == self.relative_change_variational_params
               window == LastK(lst, self.num_iter_average_convergence)
               kinds == { window[k].kind : k \in 1..Len(window) }
           IN  IF kinds = {"vec", "scalar"} /\ self.ragged_raises
                 THEN [value |-> FALSE, err |-> "ValueError"]
                 ELSE [value |-> /\ AnyMeanAbove(window, 2 * self.num_variables,
                                        self.min_requ_relative_change_variational_params)
                                 /\ ~AnyNan(lst[Len(lst)]),
                       err |-> "none"]
      ELSE [value |-> TRUE, err |-> "none"]

\* VIRPIterator._catch_non_converging_simulations
CatchNonConvergingSimulations(self) ==
    LET lst == self.relative_change_variational_params IN
    IF Len(lst) > 0 /\ AnyNan(lst[Len(lst)])
      THEN IF Len(self.variational_params_array) < 2
             THEN Raise(self, "IndexError", <<>>)
             ELSE LET previous == self.variational_params_array[
                                      Len(self.variational_params_array) - 1]
                  IN  Ok([self EXCEPT !.variational_params = previous,
                                      !.distribution_params = previous], <<>>)
      ELSE Ok(self, <<>>)

\* VIRPIterator._get_percentage_change_params
GetPercentageChangeParams(lst, rel_distance_vec) ==
    LET appended == Append(lst, VecEntry(rel_distance_vec))
    IN  IF AnyNan(appended[Len(appended)])
          THEN Append(appended, ScalarEntry(DummyChange))
          ELSE appended

\* VIRPIterator._update_variational_params, the update having produced the
\* relative change rel_distance_vec
UpdateVariationalParams(self, rel_distance_vec) ==
    [self EXCEPT
        !.variational_params_array = Append(@, self.variational_params),
        !.variational_params = [version |-> self.iteration_num + 1,
                                nan |-> AnyNan(VecEntry(rel_distance_vec))],
        !.relative_change_variational_params =
            GetPercentageChangeParams(@, rel_distance_vec)]

VirpInit ==
    /\ pc = "virp_while"
    /\ \E max_feval \in 0..MaxFeval, n_samples_per_iter \in 1..MaxSamplesPerIter,
          num_variables \in 1..MaxVariables, num_iter_average_convergence \in 1..MaxAverage,
          ragged_raises \in BOOLEAN :
            iterator = NewVirp(max_feval, n_samples_per_iter, num_variables,
                               num_iter_average_convergence, ragged_raises)
    /\ loop = [nan_update |-> FALSE]
    /\ model = IdleModel
    /\ trace = <<>>
    /\ err = "none"
    /\ output = None

\* while (self._check_convergence()) and ((self.n_sims) <= self.max_feval)
VirpWhile ==
    /\ pc = "virp_while"
    /\ LET c == CheckConvergence(iterator) IN
          /\ err' = c.err
          /\ pc' = IF c.err # "none" THEN "virp_failed"
                   ELSE IF c.value /\ iterator.n_sims <= iterator.max_feval THEN "virp_catch"
                   ELSE "virp_done"
    /\ UNCHANGED <<model, iterator, trace, loop, output>>

\* self._catch_non_converging_simulations() at the head of the loop body
VirpCatch ==
    /\ pc = "virp_catch"
    /\ LET r == CatchNonConvergingSimulations(iterator) IN
          /\ iterator' = r.self
          /\ err' = r.err
          /\ pc' = IF r.err = "none" THEN "virp_samples" ELSE "virp_failed"
    /\ UNCHANGED <<model, trace, loop, output>>

\* the rest of the loop body: the sample batch is drawn and evaluated, the
\* variational parameters are updated, the counters advance
VirpIterate ==
    /\ pc = "virp_samples"
    /\ \E rel_distance_vec \in [1..(2 * iterator.num_variables) -> ChangeValues] :
          /\ iterator' = [UpdateVariationalParams(iterator, rel_distance_vec) EXCEPT
                            !.iteration_num = @ + 1,
                            !.n_sims = @ + iterator.n_samples_per_iter
                                             * (iterator.num_variables + 1)]
          /\ loop' = [nan_update |-> AnyNan(VecEntry(rel_distance_vec))]
    /\ pc' = "virp_while"
    /\ UNCHANGED <<model, trace, err, output>>

VirpNext == VirpWhile \/ VirpCatch \/ VirpIterate

SpecVirp == VirpInit /\ [][VirpNext]_vars

\* C27: when an update has produced a NaN relative change, the next iteration
\* of the loop has, by the time it draws its samples, reset variational_params
\* to the stored column before the last (variational_params_array[:, -2]) and
\* updated the variational distribution with it.
C27_ResetAfterNan ==
    (pc = "virp_samples" /\ loop.nan_update) =>
        /\ Len(iterator.variational_params_array) >= 2
        /\ iterator.variational_params =
              iterator.variational_params_array[Len(iterator.variational_params_array) - 1]
        /\ iterator.distribution_params = iterator.variational_params

\* C28: after every iteration n_sims is iteration_num * n_samples_per_iter *
\* (num_variables + 1), and n_sims never exceeds max_feval, at the exit of the
\* loop included.
C28_MaxFeval ==
    pc \in {"virp_while", "virp_catch", "virp_samples", "virp_done", "virp_failed"} =>
        /\ iterator.n_sims = iterator.iteration_num * iterator.n_samples_per_iter
                                * (iterator.num_variables + 1)
        /\ iterator.n_sims <= iterator.max_feval

\* ------------------------------------------------ the options of a run
MaxFiles == 3

\* A key of the input file: absent, or present with its value
Absent == <<>>
KeyChoices(name) == {Absent, <<"">>, <<name>>}

\* options.get(key, None) as a condition: a missing key, None and the empty
\* string are all false
Truthy(entry) == entry # Absent /\ entry[1] # ""

\* pathlib.Path(output_dir, experiment_basename + f"_{cur_idx}.h5")
OutFile(experiment_basename, cur_idx) == <<experiment_basename, cur_idx, "h5">>

\* out_file.stem: the name without its last suffix
Stem(out_file) == <<out_file[1], out_file[2]>>

OptInit ==
    /\ pc = "get_options"
    /\ \E loadable \in BOOLEAN, output_dir \in {"none", "missing", "dir"},
          experiment_name \in KeyChoices("run"), experiment_basename \in KeyChoices("b"),
          files \in SUBSET (0..(MaxFiles - 1)) :
            loop = [ loadable |-> loadable, output_dir |-> output_dir,
                     options |-> [experiment_name |-> experiment_name,
                                  experiment_basename |-> experiment_basename],
                     files |-> files, cur_idx |-> 0, experiment_name |-> None ]
    /\ model = IdleModel
    /\ iterator = IdleIterator
    /\ trace = <<>>
    /\ err = "none"
    /\ output = None

\* the input file is loaded and the output directory looked up
OptLoad ==
    /\ pc = "get_options"
    /\ IF ~loop.loadable THEN pc' = "opt_failed" /\ err' = "FileNotFoundError"
       ELSE IF loop.output_dir # "dir" THEN pc' = "opt_failed" /\ err' = "Exception"
       ELSE pc' = "names" /\ err' = err
    /\ UNCHANGED <<model, iterator, trace, loop, output>>

\* the two names are looked up and compared
OptNames ==
    /\ pc = "names"
    /\ LET experiment_basename == loop.options.experiment_basename
           experiment_name == loop.options.experiment_name
       IN  IF Truthy(experiment_basename) /\ Truthy(experiment_name)
             THEN pc' = "opt_failed" /\ err' = "ValueError" /\ loop' = loop
           ELSE IF ~(Truthy(experiment_basename) \/ Truthy(experiment_name))
             THEN pc' = "opt_failed" /\ err' = "ValueError" /\ loop' = loop
           ELSE IF Truthy(experiment_basename)
             THEN pc' = "search" /\ err' = err /\ loop' = [loop EXCEPT !.cur_idx = 0]
           ELSE /\ pc' = "finish"
                /\ err' = err
                /\ loop' = [loop EXCEPT !.experiment_name = experiment_name[1]]
    /\ UNCHANGED <<model, iterator, trace, output>>

\* while out_file.is_file(): cur_idx += 1
OptSearch ==
    /\ pc = "search"
    /\ loop.cur_idx \in loop.files
    /\ loop' = [loop EXCEPT !.cur_idx = @ + 1]
    /\ UNCHANGED <<pc, model, iterator, trace, err, output>>

\* experiment_name = out_file.stem
OptFound ==
    /\ pc = "search"
    /\ loop.cur_idx \notin loop.files
    /\ loop' = [loop EXCEPT !.experiment_name =
                   Stem(OutFile(loop.options.experiment_basename[1], loop.cur_idx))]
    /\ pc' = "finish"
    /\ UNCHANGED <<model, iterator, trace, err, output>>

\* the global settings are stored and the experiment_name key is deleted from
\* the copy that is returned
OptFinish ==
    /\ pc = "finish"
    /\ IF loop.options.experiment_name = Absent
         THEN pc' = "opt_failed" /\ err' = "KeyError" /\ output' = output
         ELSE /\ pc' = "opt_done"
              /\ err' = err
              /\ output' = [experiment_basename |-> loop.options.experiment_basename,
                            global_settings |-> [output_dir |-> loop.output_dir,
                                                 experiment_name |-> loop.experiment_name]]
    /\ UNCHANGED <<model, iterator, trace, loop>>

OptNext == OptLoad \/ OptNames \/ OptSearch \/ OptFound \/ OptFinish

SpecOpt == OptInit /\ [][OptNext]_vars

InOpt == pc \in {"get_options", "names", "search", "finish", "opt_done", "opt_failed"}

\* the smallest index for which no file of the basename exists
FirstFree(files) == CHOOSE k \in 0..MaxFiles : k \notin files /\ \A j \in 0..(k - 1) : j \in files

\* C29: with a loadable input file and an existing output directory,
\* get_options raises ValueError when both or neither of the two names are
\* supplied; with exactly one it returns the options, and for a basename b the
\* experiment name is b_k, k the smallest index without a file b_k.h5.
C29_ExperimentName ==
    (InOpt /\ pc \in {"opt_done", "opt_failed"} /\ loop.loadable /\ loop.output_dir = "dir") =>
        LET name == Truthy(loop.options.experiment_name)
            base == Truthy(loop.options.experiment_basename)
        IN  IF name = base
              THEN pc = "opt_failed" /\ err = "ValueError"
              ELSE /\ pc = "opt_done"
                   /\ base => output.global_settings.experiment_name =
                                 <<loop.options.experiment_basename[1], FirstFree(loop.files)>>
                   /\ name => output.global_settings.experiment_name =
                                 loop.options.experiment_name[1]

\* ------------------------------------------- the post-processed result files
MaxPostFiles == 3

\* What reading one post-processed file gives: an IOError, a file without a
\* data row, or the value extracted from its first data row
FileOutcomes == {<<"ioerror", 0>>, <<"empty", 0>>, <<"value", 0>>, <<"value", 5>>}

\* PostPost.__init__
NewPostPost == [error |-> FALSE, result |-> None, output_dir |-> "dir"]

PostInit ==
    /\ pc = "read_post_files"
    /\ \E n \in 0..MaxPostFiles : \E files \in [1..n -> FileOutcomes] :
          loop = [post_files_list |-> files, next |-> 1, post_out |-> <<>>]
    /\ model = NewPostPost
    /\ iterator = IdleIterator
    /\ trace = <<>>
    /\ err = "none"
    /\ output = None

\* one round of the loop over post_files_list.  The truth value of the array
\* post_out is that of its only element, and undefined (ValueError) for more
\* than one element.
PostReadFile ==
    /\ pc = "read_post_files"
    /\ loop.next <= Len(loop.post_files_list)
    /\ LET file == loop.post_files_list[loop.next]
           post_out == Append(loop.post_out, file[2])
       IN  IF file[1] = "ioerror"
             THEN /\ model' = [model EXCEPT !.error = TRUE, !.result = None]
                  /\ pc' = "after_loop"
                  /\ err' = err
                  /\ loop' = loop
           ELSE IF file[1] = "empty"
             THEN /\ pc' = "post_raised"
                  /\ err' = "IndexError"
                  /\ UNCHANGED <<model, loop>>
           ELSE IF Len(post_out) > 1
             THEN /\ pc' = "post_raised"
                  /\ err' = "ValueError"
                  /\ loop' = [loop EXCEPT !.post_out = post_out]
                  /\ model' = model
           ELSE IF post_out[1] = 0
             THEN /\ model' = [model EXCEPT !.error = TRUE, !.result = None]
                  /\ pc' = "after_loop"
                  /\ err' = err
                  /\ loop' = [loop EXCEPT !.post_out = post_out]
           ELSE /\ loop' = [loop EXCEPT !.post_out = post_out, !.next = @ + 1]
                /\ UNCHANGED <<pc, err, model>>
    /\ UNCHANGED <<iterator, trace, output>>

\* the loop has gone through every file
PostLoopEnd ==
    /\ pc = "read_post_files"
    /\ loop.next > Len(loop.post_files_list)
    /\ pc' = "after_loop"
    /\ UNCHANGED <<model, iterator, trace, err, loop, output>>

\* the two assignments after the loop
PostAssign ==
    /\ pc = "after_loop"
    /\ model' = [model EXCEPT !.error = FALSE, !.result = <<loop.post_out>>]
    /\ pc' = "post_done"
    /\ UNCHANGED <<iterator, trace, err, loop, output>>

PostNext == PostReadFile \/ PostLoopEnd \/ PostAssign

SpecPost == PostInit /\ [][PostNext]_vars

\* the files the loop has looked at, the one it stopped at included
FilesSeen == { k \in 1..Len(loop.post_files_list) : k <= loop.next }

\* C30: after read_post_files, if reading a file failed with IOError or gave
\* no data the object is marked erroneous (error True, result None); error is
\* False only if every file was read, and then result holds one extracted
\* value per file, in the order of the files.
C30_ErrorMarked ==
    pc \in {"post_done", "post_raised"} =>
        /\ (\E k \in FilesSeen : loop.post_files_list[k][1] \in {"ioerror", "empty"}) =>
              model.error /\ model.result = None
        /\ ~model.error =>
              /\ \A k \in 1..Len(loop.post_files_list) : loop.post_files_list[k][1] = "value"
              /\ model.result =
                    <<[k \in 1..Len(loop.post_files_list) |-> loop.post_files_list[k][2]]>>

====
